---- MODULE Spec2Model ----
(***************************************************************************)
(* Model of the document store, metadata index and hybrid filter of the   *)
(* RAG repository:                                                         *)
(*   src/modules/processing/metadata_index.py  (MetadataIndex,             *)
(*                                              hybrid_search)             *)
(*   src/modules/ingestion/docstore.py         (DocumentStoreManager)      *)
(*                                                                         *)
(* Python strings are sequences of one-character strings, so that          *)
(* lower(), strip(), str() and sorted() are computed and not assumed.      *)
(* A metadata value is a record [tag, s, n, l]:                            *)
(*   tag "str"  : the string s                                             *)
(*   tag "num"  : the integer n                                            *)
(*   tag "bool" : the boolean n = 1 (True) or n = 0 (False)                *)
(*   tag "seq"  : the list l of strings                                    *)
(*   tag "tup"  : the tuple l of strings                                   *)
(* Numeric inputs are chosen >= 2, so that Python's 1 == True and          *)
(* 0 == False never identify a numeric and a boolean dictionary key.       *)
(***************************************************************************)
EXTENDS Integers, Sequences, FiniteSets, TLC

(***************************************************************************)
(* Bounds of the model.                                                    *)
(***************************************************************************)
\* number of datetime.now() readings of the MetadataIndex in one behaviour
MaxClock == 2
\* number of datetime.now() readings of the DocumentStoreManager in one behaviour
MaxStamp == 4
\* longest string and longest sequence handed to _normalize_value on its own
MaxStrLen == 3
MaxSeqLen == 2

(***************************************************************************)
(* Python strings.                                                         *)
(***************************************************************************)
S_IT      == <<"I", "T">>
S_it      == <<"i", "t">>
S_itPad   == <<" ", "i", "t", " ">>
S_hr      == <<"h", "r">>
S_a       == <<"a">>
S_b       == <<"b">>

\* ord(c) for the characters the model uses
Ord(c) ==
    CASE c = " " -> 32  [] c = "'" -> 39  [] c = "(" -> 40  [] c = ")" -> 41
      [] c = "," -> 44
      [] c = "0" -> 48  [] c = "1" -> 49  [] c = "2" -> 50  [] c = "3" -> 51
      [] c = "4" -> 52  [] c = "5" -> 53  [] c = "6" -> 54  [] c = "7" -> 55
      [] c = "8" -> 56  [] c = "9" -> 57
      [] c = "F" -> 70  [] c = "H" -> 72  [] c = "I" -> 73  [] c = "R" -> 82
      [] c = "T" -> 84
      [] c = "a" -> 97  [] c = "b" -> 98  [] c = "e" -> 101 [] c = "h" -> 104
      [] c = "i" -> 105 [] c = "l" -> 108 [] c = "r" -> 114 [] c = "s" -> 115
      [] c = "t" -> 116 [] c = "u" -> 117
      [] OTHER -> 0

\* str.lower() on one character
LowerChar(c) ==
    CASE c = "F" -> "f" [] c = "H" -> "h" [] c = "I" -> "i" [] c = "R" -> "r"
      [] c = "T" -> "t"
      [] OTHER -> c

\* str.lower()
Lower(s) == [i \in 1..Len(s) |-> LowerChar(s[i])]

IsSpace(c) == c = " "

RECURSIVE LStrip(_)
LStrip(s) == IF s # <<>> /\ IsSpace(Head(s)) THEN LStrip(Tail(s)) ELSE s

RECURSIVE RStrip(_)
RStrip(s) ==
    IF s # <<>> /\ IsSpace(s[Len(s)]) THEN RStrip(SubSeq(s, 1, Len(s) - 1)) ELSE s

\* str.strip()
Strip(s) == RStrip(LStrip(s))

\* s < t for Python strings (lexicographic by code point)
RECURSIVE StrLess(_, _)
StrLess(s, t) ==
    IF t = <<>> THEN FALSE
    ELSE IF s = <<>> THEN TRUE
    ELSE IF Head(s) # Head(t) THEN Ord(Head(s)) < Ord(Head(t))
    ELSE StrLess(Tail(s), Tail(t))

\* insertion of x into the sorted list l (stable)
RECURSIVE InsertSorted(_, _)
InsertSorted(x, l) ==
    IF l = <<>> THEN <<x>>
    ELSE IF StrLess(x, Head(l)) THEN <<x>> \o l
    ELSE <<Head(l)>> \o InsertSorted(x, Tail(l))

\* sorted(l) for a list of strings
RECURSIVE Sorted(_)
Sorted(l) == IF l = <<>> THEN <<>> ELSE InsertSorted(l[Len(l)], Sorted(SubSeq(l, 1, Len(l) - 1)))

Digit(d) == <<"0", "1", "2", "3", "4", "5", "6", "7", "8", "9">>[d + 1]

\* str(n) for an integer n >= 0
RECURSIVE IntStr(_)
IntStr(n) == IF n < 10 THEN <<Digit(n)>> ELSE IntStr(n \div 10) \o <<Digit(n % 10)>>

\* repr(s) for a string without quotes or escapes
ReprStr(s) == <<"'">> \o s \o <<"'">>

RECURSIVE ReprItems(_)
ReprItems(l) ==
    IF l = <<>> THEN <<>>
    ELSE IF Len(l) = 1 THEN ReprStr(l[1])
    ELSE ReprStr(l[1]) \o <<",", " ">> \o ReprItems(Tail(l))

\* str(t) for a tuple of strings: "()", "('a',)", "('a', 'b')"
TupleStr(l) ==
    IF Len(l) = 1 THEN <<"(">> \o ReprStr(l[1]) \o <<",", ")">>
    ELSE <<"(">> \o ReprItems(l) \o <<")">>

(***************************************************************************)
(* Metadata values.                                                        *)
(***************************************************************************)
StrV(s)  == [tag |-> "str",  s |-> s,    n |-> 0, l |-> <<>>]
NumV(n)  == [tag |-> "num",  s |-> <<>>, n |-> n, l |-> <<>>]
BoolV(b) == [tag |-> "bool", s |-> <<>>, n |-> IF b THEN 1 ELSE 0, l |-> <<>>]
SeqV(l)  == [tag |-> "seq",  s |-> <<>>, n |-> 0, l |-> l]
TupV(l)  == [tag |-> "tup",  s |-> <<>>, n |-> 0, l |-> l]

\* str(value), as persist() applies it to a bucket key
PyStr(v) ==
    CASE v.tag = "str"  -> v.s
      [] v.tag = "num"  -> IntStr(v.n)
      [] v.tag = "bool" -> IF v.n = 1 THEN <<"T", "r", "u", "e">>
                                      ELSE <<"F", "a", "l", "s", "e">>
      [] v.tag = "tup"  -> TupleStr(v.l)
      [] OTHER          -> <<>>

\* no value: the argument of a call that takes none
NoValue == [tag |-> "none", s |-> <<>>, n |-> 0, l |-> <<>>]

\* NormalizeValue keeping the elements of a sequence in the order given
NormalizeValue_Unsorted(v) ==
    IF v.tag = "str" THEN StrV(Strip(Lower(v.s)))
    ELSE IF v.tag \in {"seq", "tup"} THEN TupV(v.l)
    ELSE v

\* MetadataIndex._normalize_value
NormalizeValue(v) ==
    IF v.tag = "str" THEN StrV(Strip(Lower(v.s)))
    ELSE IF v.tag \in {"seq", "tup"} THEN TupV(Sorted(v.l))
    ELSE v

(***************************************************************************)
(* Inputs.                                                                 *)
(***************************************************************************)
NodeIds == {"n1", "n2"}
Fields  == {"a", "b"}

\* the metadata values the callers hand in: every kind of the data model
V_IT    == StrV(S_IT)
V_itPad == StrV(S_itPad)
V_hr    == StrV(S_hr)
V_7     == NumV(7)
V_12    == NumV(12)
V_true  == BoolV(TRUE)
V_ba    == SeqV(<<S_b, S_a>>)
V_ab    == SeqV(<<S_a, S_b>>)

\* the metadata maps of the nodes handed to index_nodes
M_IT  == [a |-> V_IT, b |-> V_7]
M_it  == [a |-> V_itPad, b |-> V_12]
M_seq == [a |-> V_ba, b |-> V_true]
M_b   == [b |-> V_12]
MetaChoices == { M_IT, M_it, M_seq, M_b }

Node(id, md) == [node_id |-> id, metadata |-> md]

\* the node lists handed to index_nodes: the empty list, every single node,
\* a list of two nodes and a list that holds one id twice
NodeBatches ==
    { <<>> } \cup { <<Node(id, md)>> : id \in NodeIds, md \in MetaChoices }
    \cup { << Node("n1", M_IT), Node("n2", M_it) >>,
           << Node("n1", M_IT), Node("n1", M_seq) >> }

\* fields_to_index: None (given = FALSE) or a list of field names
NoFields == [given |-> FALSE, fields |-> {}]
OnlyA    == [given |-> TRUE, fields |-> {"a"}]

\* the calls of index_nodes: every node list with the default fields_to_index,
\* and single nodes with fields_to_index = ['a']
IndexCalls ==
    { <<nodes, NoFields>> : nodes \in NodeBatches }
    \cup { << <<Node(id, md)>>, OnlyA >> : id \in NodeIds, md \in {M_IT, M_b} }

Flt(f, v) == [field |-> f, value |-> v]

\* the values a filter asks for
FilterValues == { V_IT, V_ab, V_7, V_12, V_true }

\* filters: a dictionary in insertion order, at most one entry per field
FilterChoices ==
    { <<>> } \cup { <<Flt(f, v)>> : f \in Fields, v \in FilterValues }
    \cup { <<Flt(p[1], v), Flt(p[2], w)>> :
              p \in {q \in Fields \X Fields : q[1] # q[2]}, v \in FilterValues, w \in FilterValues }

\* the filters the callers of search pass
CallFilters ==
    { <<>>, <<Flt("a", V_IT)>>, <<Flt("b", V_12)>>,
      <<Flt("a", V_IT), Flt("b", V_7)>>, <<Flt("b", V_12), Flt("a", V_ab)>> }

\* the filters the callers of hybrid_search pass
HybridFilters ==
    { <<>>, <<Flt("a", V_IT)>>, <<Flt("a", V_IT), Flt("b", V_7)>> }

\* the ranked candidate lists handed to hybrid_search; n3 is in no index
CandChoices ==
    { <<"n2", "n1">>, <<"n1", "n2", "n1">>, <<"n2", "n3", "n1">> }

(***************************************************************************)
(* State.                                                                  *)
(***************************************************************************)
VARIABLES
    field_index,    \* MetadataIndex.field_index: field -> buckets in insertion
                    \* order, each bucket [key, ids]
    node_metadata,  \* MetadataIndex.node_metadata: node id -> metadata
    stats,          \* MetadataIndex.stats
    now,            \* the last reading of datetime.now()
    call,           \* the last call made on the index and its arguments
    ret,            \* what that call returned
    disk,           \* the snapshot files under MetadataIndex.persist_path
    backend,        \* DocumentStoreManager.backend
    docstore,       \* DocumentStoreManager.docstore: the documents the
                    \* SimpleDocumentStore holds, by key
    files,          \* the files under DocumentStoreManager.persist_path, by stem
    metadata_index, \* DocumentStoreManager.metadata_index: doc id -> metadata
    store_call,     \* the last call made on the store and its arguments
    store_ret,      \* what that call returned
    writer          \* the frame of the add_documents or delete_document call
                    \* in progress, when the call is taken step by step

indexVars == <<field_index, node_metadata, stats, call, ret, disk>>
storeVars == <<backend, docstore, files, metadata_index, store_call, store_ret, writer>>
vars == <<field_index, node_metadata, stats, now, call, ret, disk,
          backend, docstore, files, metadata_index, store_call, store_ret, writer>>

EmptyFn == [x \in {} |-> {}]

\* a bound of range_search: None (given = FALSE) or a value
NoBound == [given |-> FALSE, value |-> NumV(0)]
Bound(v) == [given |-> TRUE, value |-> v]

\* a call and its arguments
Call(op, id, filters, match_all, cand) ==
    [op |-> op, id |-> id, filters |-> filters, match_all |-> match_all, cand |-> cand,
     value |-> NoValue, min_value |-> NoBound, max_value |-> NoBound]

\* a return value: "none" where the method returns None; for search the set of
\* the ids of the list it returns (list(result) of a set: no id twice, order
\* unspecified); for hybrid_search the list; for range_search the list as one
\* set of ids per bucket it took, in the order of the buckets
NoRet == [kind |-> "none", ids |-> {}, list |-> <<>>, raised |-> FALSE,
     value |-> NoValue]
RetSet(ids) == [kind |-> "set", ids |-> ids, list |-> <<>>, raised |-> FALSE,
     value |-> NoValue]
RetList(l) == [kind |-> "list", ids |-> {}, list |-> l, raised |-> FALSE,
     value |-> NoValue]
\* the value _normalize_value returns
RetValue(v) == [NoRet EXCEPT !.kind = "value", !.value = v]
RetBuckets(l) == [kind |-> "buckets", ids |-> {}, list |-> l, raised |-> FALSE,
     value |-> NoValue]

(***************************************************************************)
(* The inverted index: dictionaries in insertion order.                    *)
(***************************************************************************)
\* position of key in the buckets of one field (keys are unique), 0 when absent
KeyPos(buckets, key) ==
    IF \E i \in 1..Len(buckets) : buckets[i].key = key
    THEN CHOOSE i \in 1..Len(buckets) : buckets[i].key = key
    ELSE 0

\* normalized_value in self.field_index[field], for a field of the index
HasBucket(fi, field, key) == field \in DOMAIN fi /\ KeyPos(fi[field], key) > 0

\* self.field_index[field][key], for a bucket that exists
Bucket(fi, field, key) == fi[field][KeyPos(fi[field], key)].ids

\* the index with bucket (field, key) set to ids; the defaultdicts create the
\* field and the bucket on first access
WithBucket(fi, field, key, ids) ==
    LET old == IF field \in DOMAIN fi THEN fi[field] ELSE <<>>
        p   == KeyPos(old, key)
        new == IF p = 0 THEN Append(old, [key |-> key, ids |-> ids])
               ELSE [old EXCEPT ![p].ids = ids]
    IN [f \in DOMAIN fi \cup {field} |-> IF f = field THEN new ELSE fi[f]]

\* self.field_index[field][normalized_value].add(node_id)
AddToBucket(fi, field, key, id) ==
    WithBucket(fi, field, key,
               IF HasBucket(fi, field, key) THEN Bucket(fi, field, key) \cup {id} ELSE {id})

(***************************************************************************)
(* MetadataIndex.index_nodes                                               *)
(***************************************************************************)
\* fields = fields_to_index or metadata.keys()
FieldsOf(fti, metadata) ==
    IF fti.given /\ fti.fields # {} THEN fti.fields ELSE DOMAIN metadata

\* the inner loop of index_nodes over the fields of one node; st is
\* [fi, nm, ifs]: field_index, node_metadata, stats['indexed_fields']
RECURSIVE IndexFields(_, _, _, _)
IndexFields(st, node_id, metadata, fields) ==
    IF fields = {} THEN st
    ELSE LET field == CHOOSE f \in fields : TRUE
             st1 == IF field \in DOMAIN metadata
                    THEN [st EXCEPT
                            !.fi = AddToBucket(st.fi, field,
                                               NormalizeValue(metadata[field]), node_id),
                            !.ifs = st.ifs \cup {field}]
                    ELSE st
         IN IndexFields(st1, node_id, metadata, fields \ {field})

\* the body of the loop of index_nodes for one node
IndexNode(st, node, fti) ==
    LET nm1 == [id \in DOMAIN st.nm \cup {node.node_id} |->
                    IF id = node.node_id THEN node.metadata ELSE st.nm[id]]
    IN IndexFields([st EXCEPT !.nm = nm1], node.node_id, node.metadata,
                   FieldsOf(fti, node.metadata))

\* the loop of index_nodes over the node list
RECURSIVE IndexLoop(_, _, _)
IndexLoop(st, nodes, fti) ==
    IF nodes = <<>> THEN st
    ELSE IndexLoop(IndexNode(st, Head(nodes), fti), Tail(nodes), fti)

index_nodes(nodes, fti) ==
    /\ call' = Call("index_nodes", "", <<>>, TRUE, <<>>)
    /\ ret' = NoRet
    /\ UNCHANGED <<disk, storeVars>>
    /\ IF nodes = <<>>
       THEN UNCHANGED <<field_index, node_metadata, stats, now>>
       ELSE /\ now < MaxClock
            /\ LET st == IndexLoop([fi |-> field_index, nm |-> node_metadata,
                                    ifs |-> stats.indexed_fields], nodes, fti)
               IN /\ field_index' = st.fi
                  /\ node_metadata' = st.nm
                  /\ now' = now + 1
                  /\ stats' = [total_nodes |-> Cardinality(DOMAIN st.nm),
                               indexed_fields |-> st.ifs,
                               last_updated |-> now']

(***************************************************************************)
(* MetadataIndex.delete_node                                               *)
(***************************************************************************)
\* the loop of delete_node over the items of the stored metadata
RECURSIVE DiscardFields(_, _, _, _)
DiscardFields(fi, node_id, metadata, fields) ==
    IF fields = {} THEN fi
    ELSE LET field == CHOOSE f \in fields : TRUE
             key == NormalizeValue(metadata[field])
             fi1 == IF field \in DOMAIN fi /\ HasBucket(fi, field, key)
                    THEN WithBucket(fi, field, key, Bucket(fi, field, key) \ {node_id})
                    ELSE fi
         IN DiscardFields(fi1, node_id, metadata, fields \ {field})

delete_node(node_id) ==
    /\ call' = Call("delete_node", node_id, <<>>, TRUE, <<>>)
    /\ ret' = NoRet
    /\ UNCHANGED <<disk, storeVars>>
    /\ IF node_id \notin DOMAIN node_metadata
       THEN UNCHANGED <<field_index, node_metadata, stats, now>>
       ELSE /\ now < MaxClock
            /\ field_index' = DiscardFields(field_index, node_id, node_metadata[node_id],
                                            DOMAIN node_metadata[node_id])
            /\ node_metadata' = [id \in DOMAIN node_metadata \ {node_id} |-> node_metadata[id]]
            /\ now' = now + 1
            /\ stats' = [stats EXCEPT !.total_nodes = Cardinality(DOMAIN node_metadata'),
                                      !.last_updated = now']

(***************************************************************************)
(* MetadataIndex.clear                                                     *)
(***************************************************************************)
clear ==
    /\ now < MaxClock
    /\ field_index' = EmptyFn
    /\ node_metadata' = EmptyFn
    /\ now' = now + 1
    /\ stats' = [total_nodes |-> 0, indexed_fields |-> {}, last_updated |-> now']
    /\ call' = Call("clear", "", <<>>, TRUE, <<>>)
    /\ ret' = NoRet
    /\ UNCHANGED <<disk, storeVars>>

(***************************************************************************)
(* MetadataIndex.search                                                    *)
(***************************************************************************)
\* one entry of result_sets: the bucket object itself (aliased) or a new set()
ResultSet(fi, flt) ==
    LET key == NormalizeValue(flt.value)
    IN IF flt.field \in DOMAIN fi /\ HasBucket(fi, flt.field, key)
       THEN [aliased |-> TRUE, field |-> flt.field, key |-> key,
             ids |-> Bucket(fi, flt.field, key)]
       ELSE [aliased |-> FALSE, field |-> flt.field, key |-> key, ids |-> {}]

\* the loop that builds result_sets
ResultSets(fi, filters) == [i \in 1..Len(filters) |-> ResultSet(fi, filters[i])]

\* IntersectAll with the sets united instead of intersected
RECURSIVE IntersectAll_United(_, _)
IntersectAll_United(result, sets) ==
    IF sets = <<>> THEN result
    ELSE IntersectAll_United(result \cup Head(sets).ids, Tail(sets))

\* result &= s for s in result_sets[1:]
RECURSIVE IntersectAll(_, _)
IntersectAll(result, sets) ==
    IF sets = <<>> THEN result
    ELSE IntersectAll(result \cap Head(sets).ids, Tail(sets))

\* result |= s for s in result_sets
RECURSIVE UnionAll(_, _)
UnionAll(result, sets) ==
    IF sets = <<>> THEN result
    ELSE UnionAll(result \cup Head(sets).ids, Tail(sets))

\* the set of ids search returns
SearchResult(fi, nm, filters, match_all) ==
    IF filters = <<>> THEN DOMAIN nm
    ELSE LET rs == ResultSets(fi, filters)
         IN IF match_all THEN IntersectAll(rs[1].ids, Tail(rs))
            ELSE UnionAll({}, rs)

\* field_index after search: with match_all, result is result_sets[0], the
\* bucket object itself when the first filter hit a bucket, and `result &= s`
\* updates that object in place
SearchIndex(fi, filters, match_all) ==
    IF filters = <<>> \/ ~match_all THEN fi
    ELSE LET rs == ResultSets(fi, filters)
         IN IF rs[1].aliased
            THEN WithBucket(fi, rs[1].field, rs[1].key, IntersectAll(rs[1].ids, Tail(rs)))
            ELSE fi

search(filters, match_all) ==
    /\ call' = Call("search", "", filters, match_all, <<>>)
    /\ ret' = RetSet(SearchResult(field_index, node_metadata, filters, match_all))
    /\ field_index' = SearchIndex(field_index, filters, match_all)
    /\ UNCHANGED <<node_metadata, stats, now, disk, storeVars>>

(***************************************************************************)
(* hybrid_search                                                           *)
(***************************************************************************)
\* Comprehension keeping one occurrence of each candidate only
RECURSIVE Comprehension_Dedup(_, _)
Comprehension_Dedup(vector_results, metadata_results) ==
    IF vector_results = <<>> THEN <<>>
    ELSE (IF Head(vector_results) \in metadata_results THEN <<Head(vector_results)>> ELSE <<>>)
         \o Comprehension_Dedup(Tail(vector_results), metadata_results \ {Head(vector_results)})

\* [node_id for node_id in vector_results if node_id in metadata_results]
RECURSIVE Comprehension(_, _)
Comprehension(vector_results, metadata_results) ==
    IF vector_results = <<>> THEN <<>>
    ELSE (IF Head(vector_results) \in metadata_results THEN <<Head(vector_results)>> ELSE <<>>)
         \o Comprehension(Tail(vector_results), metadata_results)

\* the list hybrid_search returns
HybridResult(fi, nm, vector_results, metadata_filters) ==
    IF metadata_filters = <<>> THEN vector_results
    ELSE Comprehension(vector_results, SearchResult(fi, nm, metadata_filters, TRUE))

\* field_index after hybrid_search: that of the search it calls
HybridIndex(fi, metadata_filters) ==
    IF metadata_filters = <<>> THEN fi ELSE SearchIndex(fi, metadata_filters, TRUE)

hybrid_search(vector_results, metadata_filters) ==
    /\ call' = Call("hybrid_search", "", metadata_filters, TRUE, vector_results)
    /\ ret' = RetList(HybridResult(field_index, node_metadata, vector_results, metadata_filters))
    /\ field_index' = HybridIndex(field_index, metadata_filters)
    /\ UNCHANGED <<node_metadata, stats, now, disk, storeVars>>

(***************************************************************************)
(* MetadataIndex.range_search                                              *)
(***************************************************************************)
\* x < y raises TypeError unless both are strings, both numbers or booleans,
\* or both tuples (a list and a tuple do not compare)
Comparable(x, y) ==
    \/ x.tag = "str" /\ y.tag = "str"
    \/ x.tag \in {"num", "bool"} /\ y.tag \in {"num", "bool"}
    \/ x.tag = "tup" /\ y.tag = "tup"
    \/ x.tag = "seq" /\ y.tag = "seq"

\* l < m for two sequences of strings
RECURSIVE SeqLess(_, _)
SeqLess(l, m) ==
    IF m = <<>> THEN FALSE
    ELSE IF l = <<>> THEN TRUE
    ELSE IF Head(l) # Head(m) THEN StrLess(Head(l), Head(m))
    ELSE SeqLess(Tail(l), Tail(m))

\* x < y for comparable values
Less(x, y) ==
    IF x.tag = "str" THEN StrLess(x.s, y.s)
    ELSE IF x.tag \in {"num", "bool"} THEN x.n < y.n
    ELSE SeqLess(x.l, y.l)

\* InRange with both bounds exclusive
InRange_Exclusive(value, min_value, max_value) ==
    IF min_value.given /\ ~Comparable(value, min_value.value) THEN FALSE
    ELSE IF min_value.given /\ ~Less(min_value.value, value) THEN FALSE
    ELSE IF max_value.given /\ ~Comparable(max_value.value, value) THEN FALSE
    ELSE IF max_value.given /\ ~Less(value, max_value.value) THEN FALSE
    ELSE TRUE

\* the body of the loop of range_search: TRUE when the bucket is taken
InRange(value, min_value, max_value) ==
    IF min_value.given /\ ~Comparable(value, min_value.value) THEN FALSE
    ELSE IF min_value.given /\ Less(value, min_value.value) THEN FALSE
    ELSE IF max_value.given /\ ~Comparable(max_value.value, value) THEN FALSE
    ELSE IF max_value.given /\ Less(max_value.value, value) THEN FALSE
    ELSE TRUE

\* the buckets range_search takes, in order
RangeResult(fi, field, min_value, max_value) ==
    IF field \notin DOMAIN fi THEN <<>>
    ELSE LET Taken(b) == InRange(b.key, min_value, max_value)
             taken == SelectSeq(fi[field], Taken)
         IN [i \in 1..Len(taken) |-> taken[i].ids]

\* the ids of the list range_search returns
RangeIds(fi, field, min_value, max_value) ==
    LET r == RangeResult(fi, field, min_value, max_value)
    IN UNION { r[i] : i \in 1..Len(r) }

range_search(field, min_value, max_value) ==
    /\ call' = [Call("range_search", field, <<>>, TRUE, <<>>) EXCEPT
                    !.min_value = min_value, !.max_value = max_value]
    /\ ret' = RetBuckets(RangeResult(field_index, field, min_value, max_value))
    /\ UNCHANGED <<field_index, node_metadata, stats, now, disk, storeVars>>

\* the calls of range_search
RangeCalls ==
    { <<"b", Bound(V_7), Bound(V_12)>>, <<"a", Bound(V_hr), NoBound>> }

\* MetadataIndex.get_node_metadata: found, and the metadata when found
GetNodeMetadataFound(nm, node_id) == node_id \in DOMAIN nm

(***************************************************************************)
(* MetadataIndex.get_unique_values and get_value_counts.                   *)
(***************************************************************************)
\* list(self.field_index[field].keys())
GetUniqueValues(fi, field) ==
    IF field \notin DOMAIN fi THEN <<>>
    ELSE [i \in 1..Len(fi[field]) |-> fi[field][i].key]

\* {value: len(node_ids) for value, node_ids in self.field_index[field].items()},
\* the items in dict order
GetValueCounts(fi, field) ==
    IF field \notin DOMAIN fi THEN <<>>
    ELSE [i \in 1..Len(fi[field]) |->
             [key |-> fi[field][i].key, count |-> Cardinality(fi[field][i].ids)]]

get_unique_values(field) ==
    /\ call' = Call("get_unique_values", field, <<>>, TRUE, <<>>)
    /\ ret' = RetList(GetUniqueValues(field_index, field))
    /\ UNCHANGED <<field_index, node_metadata, stats, now, disk, storeVars>>

get_value_counts(field) ==
    /\ call' = Call("get_value_counts", field, <<>>, TRUE, <<>>)
    /\ ret' = RetList(GetValueCounts(field_index, field))
    /\ UNCHANGED <<field_index, node_metadata, stats, now, disk, storeVars>>

(***************************************************************************)
(* MetadataIndex._normalize_value called on its own                        *)
(***************************************************************************)
\* the strings of at most n characters over chars
RECURSIVE Strings(_, _)
Strings(chars, n) ==
    IF n = 0 THEN { <<>> }
    ELSE Strings(chars, n - 1)
         \cup { <<c>> \o s : c \in chars, s \in { t \in Strings(chars, n - 1) : Len(t) = n - 1 } }

\* the lists of at most n elements of items
RECURSIVE Lists(_, _)
Lists(items, n) ==
    IF n = 0 THEN { <<>> }
    ELSE Lists(items, n - 1)
         \cup { <<x>> \o l : x \in items, l \in { m \in Lists(items, n - 1) : Len(m) = n - 1 } }

\* the values handed to _normalize_value: strings in both cases with spaces
\* at either end and inside, lists and tuples of strings in every order and
\* with repeats, numbers, booleans
NormInputs ==
    { StrV(s) : s \in Strings({"I", "T", "i", "t", " "}, MaxStrLen) }
    \cup { SeqV(l) : l \in Lists({S_a, S_b, S_IT, S_it}, MaxSeqLen) }
    \cup { TupV(l) : l \in Lists({S_a, S_b, S_IT, S_it}, MaxSeqLen) }
    \cup { NumV(0), NumV(1), NumV(7), NumV(12), BoolV(TRUE), BoolV(FALSE) }

normalize_value(value) ==
    /\ call' = [Call("_normalize_value", "", <<>>, TRUE, <<>>) EXCEPT !.value = value]
    /\ ret' = RetValue(NormalizeValue(value))
    /\ UNCHANGED <<field_index, node_metadata, stats, now, disk, storeVars>>

(***************************************************************************)
(* MetadataIndex.persist and MetadataIndex._load                           *)
(***************************************************************************)
\* a snapshot file: missing, written whole, or left part-written (json.load
\* raises on it)
NoFile == [exists |-> FALSE, valid |-> TRUE, data |-> EmptyFn]
File(data) == [exists |-> TRUE, valid |-> TRUE, data |-> data]
CorruptFile == [exists |-> TRUE, valid |-> FALSE, data |-> EmptyFn]

\* {str(value): list(node_ids) for value, node_ids in values.items()}: a key
\* string met again keeps its place in the dictionary and takes the later list
RECURSIVE SerializeBuckets(_, _)
SerializeBuckets(out, buckets) ==
    IF buckets = <<>> THEN out
    ELSE LET k == StrV(PyStr(Head(buckets).key))
             p == KeyPos(out, k)
             out1 == IF p = 0 THEN Append(out, [key |-> k, ids |-> Head(buckets).ids])
                     ELSE [out EXCEPT ![p].ids = Head(buckets).ids]
         IN SerializeBuckets(out1, Tail(buckets))

\* serializable_index of persist; a JSON key is a string, held here as the
\* string value it is read back as
SerializeIndex(fi) == [f \in DOMAIN fi |-> SerializeBuckets(<<>>, fi[f])]

\* a metadata value written by json.dump and read by json.load: a tuple comes
\* back as a list; strings, numbers, booleans and lists come back equal
JsonValue(v) == IF v.tag = "tup" THEN SeqV(v.l) ELSE v

\* node_metadata written by json.dump and read by json.load
JsonMetadata(nm) ==
    [id \in DOMAIN nm |-> [f \in DOMAIN nm[id] |-> JsonValue(nm[id][f])]]

persist ==
    /\ disk' = [field_index |-> File(SerializeIndex(field_index)),
                node_metadata |-> File(JsonMetadata(node_metadata)),
                stats |-> File(stats)]
    /\ call' = Call("persist", "", <<>>, TRUE, <<>>)
    /\ ret' = NoRet
    /\ UNCHANGED <<field_index, node_metadata, stats, now, storeVars>>

\* the three snapshot files in the order persist() writes and _load reads them
SnapshotFiles == <<"field_index", "node_metadata", "stats">>

\* where persist() stops: at the file named, before open(file, 'w') touched it
\* ("open") or after open truncated it and before json.dump completed ("dump")
Stop(file, how) == [file |-> file, how |-> how]
Stops == { Stop(SnapshotFiles[i], how) : i \in 1..3, how \in {"open", "dump"} }

\* the files persist() leaves when it stops at stop: the files before it are
\* written whole, the file it stops at is untouched or part-written, the files
\* after it are untouched
StoppedDisk(d, fi, nm, st, stop) ==
    LET new == [field_index |-> File(SerializeIndex(fi)),
                node_metadata |-> File(JsonMetadata(nm)),
                stats |-> File(st)]
        at == CHOOSE i \in 1..3 : SnapshotFiles[i] = stop.file
    IN [f \in DOMAIN d |->
           LET i == CHOOSE j \in 1..3 : SnapshotFiles[j] = f
           IN IF i < at THEN new[f]
              ELSE IF i = at /\ stop.how = "dump" THEN CorruptFile
              ELSE d[f]]

\* the process ends while persist() runs: the files are left as persist()
\* wrote them so far and the MetadataIndex object is gone
persist_crash(stop) ==
    /\ disk' = StoppedDisk(disk, field_index, node_metadata, stats, stop)
    /\ field_index' = EmptyFn
    /\ node_metadata' = EmptyFn
    /\ stats' = [total_nodes |-> 0, indexed_fields |-> {}, last_updated |-> 0]
    /\ call' = Call("crash", "", <<>>, TRUE, <<>>)
    /\ ret' = NoRet
    /\ UNCHANGED <<now, storeVars>>

\* the loop of _load over loaded_index: self.field_index[field][value] =
\* set(node_ids), the keys being the strings of the file; a field the file
\* holds without values creates no entry
LoadIndex(data) == [f \in {g \in DOMAIN data : data[g] # <<>>} |-> data[f]]

\* _load: the three files are read in order inside one try; json.load raises
\* on a part-written file, the except clause logs it, and what was assigned
\* before stays assigned
LoadState(d) ==
    LET fiOk == d.field_index.valid
        nmOk == fiOk /\ d.node_metadata.valid
        stOk == nmOk /\ d.stats.valid
    IN [fi |-> IF d.field_index.exists /\ fiOk THEN LoadIndex(d.field_index.data)
               ELSE EmptyFn,
        nm |-> IF d.node_metadata.exists /\ nmOk THEN d.node_metadata.data ELSE EmptyFn,
        stats |-> IF d.stats.exists /\ stOk THEN d.stats.data
                  ELSE [total_nodes |-> 0, indexed_fields |-> {}, last_updated |-> 0],
        logged |-> ~stOk,
        raised |-> FALSE]

\* MetadataIndex.__init__ on an existing persist_path: the fields of a new
\* object, then _load
load ==
    /\ field_index' = LoadState(disk).fi
    /\ node_metadata' = LoadState(disk).nm
    /\ stats' = LoadState(disk).stats
    /\ call' = Call("load", "", <<>>, TRUE, <<>>)
    /\ ret' = [NoRet EXCEPT !.raised = LoadState(disk).raised]
    /\ UNCHANGED <<now, disk, storeVars>>

(***************************************************************************)
(* DocumentStoreManager: documents, files and inputs.                      *)
(***************************************************************************)
\* a Document: doc_id, text and metadata (the embedding, which the store only
\* copies, is left out)
Doc(id, text, md) == [doc_id |-> id, text |-> text, metadata |-> md]
NoDoc == Doc("", "", EmptyFn)

\* datetime.now().isoformat() for the clock reading t: a string
IsoFormat(t) == StrV(<<"t">> \o IntStr(t))

\* a file under persist_path: a document written by _save_json_document, the
\* index written by _save_metadata_index, or the SimpleDocumentStore written
\* by its persist()
DocFile(doc)      == [kind |-> "doc", doc |-> doc, index |-> EmptyFn, docs |-> EmptyFn]
IndexFile(index)  == [kind |-> "index", doc |-> NoDoc, index |-> index, docs |-> EmptyFn]
StoreFile(docs)   == [kind |-> "docstore", doc |-> NoDoc, index |-> EmptyFn, docs |-> docs]
\* a file whose write stopped part-way: json.load raises on it
PartialFile       == [kind |-> "partial", doc |-> NoDoc, index |-> EmptyFn, docs |-> EmptyFn]

\* f with key k set to v
Put(f, k, v) == [x \in DOMAIN f \cup {k} |-> IF x = k THEN v ELSE f[x]]
\* a del that removes nothing
Drop_Keep(f, k) == f

\* f without key k
Drop(f, k) == [x \in DOMAIN f \ {k} |-> f[x]]

\* how one write of a file (open(name, 'w') then json.dump) ends: it completes
\* ("none"), open raises and the file is untouched ("open"), or the dump raises
\* after open truncated the file ("dump")
Faults == {"none", "open", "dump"}

\* with open(name, 'w') as f: json.dump(file, f), ending as fault says
Write(fs, name, file, fault) ==
    CASE fault = "none" -> Put(fs, name, file)
      [] fault = "open" -> fs
      [] OTHER          -> Put(fs, name, PartialFile)

\* the writes of a call all completing
NoFaults(documents) == [i \in 1..Len(documents) |-> "none"]
\* the snapshot write of persist() that fails, if one does
PersistFault(file, fault) == [file |-> file, fault |-> fault]
NoPersistFault == PersistFault("", "none")

\* the ids of the documents handed to the store; metadata_index is the stem
\* of the file the store keeps its index in
DocIds == {"d1", "metadata_index"}
Texts == {"t1", "t2"}
StoreMetaChoices == { [a |-> V_IT, b |-> V_7], [a |-> V_hr] }

\* the document lists handed to add_documents: every single document, a list
\* of two documents and a list that holds one id twice
DocBatches ==
    { <<Doc(id, text, md)>> : id \in DocIds, text \in Texts, md \in StoreMetaChoices }
    \cup { << Doc("d1", "t1", [a |-> V_IT, b |-> V_7]), Doc("metadata_index", "t2", [a |-> V_hr]) >>,
           << Doc("d1", "t1", [a |-> V_IT, b |-> V_7]), Doc("d1", "t2", [a |-> V_hr]) >> }

(***************************************************************************)
(* DocumentStoreManager.get_document and get_all_documents                 *)
(***************************************************************************)
NotFound == [found |-> FALSE, doc |-> NoDoc]
Found(doc) == [found |-> TRUE, doc |-> doc]

\* a document written by json.dump and read back by json.load
JsonDocument(doc) ==
    Doc(doc.doc_id, doc.text, [f \in DOMAIN doc.metadata |-> JsonValue(doc.metadata[f])])

\* _load_json_document: None when the file is missing; a file that holds the
\* index has no 'doc_id' key and raises KeyError
LoadJsonDocument(fs, doc_id) ==
    IF doc_id \notin DOMAIN fs THEN [raised |-> FALSE, res |-> NotFound]
    ELSE IF fs[doc_id].kind = "doc"
         THEN [raised |-> FALSE, res |-> Found(JsonDocument(fs[doc_id].doc))]
    ELSE [raised |-> TRUE, res |-> NotFound]

\* get_document: the bare except turns every exception into None; the
\* SimpleDocumentStore raises ValueError for an unknown id
GetDocument(be, ds, fs, doc_id) ==
    IF be = "json" THEN LoadJsonDocument(fs, doc_id).res
    ELSE IF doc_id \in DOMAIN ds THEN Found(ds[doc_id]) ELSE NotFound

\* get_all_documents: the documents by the key they are held under (the stem
\* of the file for the json backend, the key of docstore.docs otherwise);
\* _load_all_json_documents leaves metadata_index.json out
GetAllDocuments(be, ds, fs) ==
    IF be = "json"
    THEN LET stems == { x \in DOMAIN fs : x # "metadata_index" /\ LoadJsonDocument(fs, x).res.found }
         IN [x \in stems |-> LoadJsonDocument(fs, x).res.doc]
    ELSE ds

(***************************************************************************)
(* DocumentStoreManager.persist, add_documents and delete_document         *)
(***************************************************************************)
\* persist: the SimpleDocumentStore to docstore.json (simple backend), then
\* _save_metadata_index; an exception of the first write skips the second,
\* and every exception is caught and logged
Persist(be, ds, fs, mi, pf) ==
    LET f1 == IF be = "simple" /\ pf.file = "docstore" THEN pf.fault ELSE "none"
        f2 == IF pf.file = "metadata_index" THEN pf.fault ELSE "none"
        fs1 == IF be = "simple" THEN Write(fs, "docstore", StoreFile(ds), f1) ELSE fs
    IN IF f1 # "none" THEN fs1
       ELSE Write(fs1, "metadata_index", IndexFile(mi), f2)

\* StoreKey taking the key from the text instead of the id
StoreKey_ByText(doc) == doc.text

\* the key a document is stored under: f"{doc.doc_id}.json", or the doc_id the
\* SimpleDocumentStore keys its documents by
StoreKey(doc) == doc.doc_id

\* lines 118-137 of add_documents for one document: stamp it, store it,
\* index it and count it; when the storage step raises, the except clause
\* appends the id to errors and nothing after the storage step runs
StoreDocument(be, st, doc, existing, fault) ==
    LET t1 == st.now + 1
        t2 == IF existing.found THEN t1 + 1 ELSE t1
        md1 == Put(doc.metadata, "stored_at", IsoFormat(t1))
        md2 == IF existing.found THEN Put(md1, "updated_at", IsoFormat(t2)) ELSE md1
        stamped == Doc(doc.doc_id, doc.text, md2)
    IN IF fault # "none"
       THEN [st EXCEPT
               !.now = t2,
               !.fs = IF be = "json"
                      THEN Write(st.fs, StoreKey(stamped), DocFile(stamped), fault) ELSE @,
               !.errors = Append(@, doc.doc_id)]
       ELSE [st EXCEPT
               !.now = t2,
               !.fs = IF be = "json" THEN Put(st.fs, StoreKey(stamped), DocFile(stamped)) ELSE @,
               !.ds = IF be = "json" THEN @ ELSE Put(st.ds, StoreKey(stamped), stamped),
               !.mi = Put(st.mi, doc.doc_id, md2),
               !.added = IF existing.found THEN @ ELSE @ + 1,
               !.updated = IF existing.found THEN @ + 1 ELSE @]

\* AddDocument refreshing the index entry of a document it skips
AddDocument_SkipReindexes(be, st, doc, update_existing, fault) ==
    LET existing == GetDocument(be, st.ds, st.fs, doc.doc_id)
    IN IF existing.found /\ ~update_existing
       THEN [st EXCEPT !.skipped = @ + 1, !.mi = Put(st.mi, doc.doc_id, doc.metadata)]
       ELSE StoreDocument(be, st, doc, existing, fault)

\* AddDocument without the lookup: every document is stored as a new one
AddDocument_NoLookup(be, st, doc, update_existing, fault) ==
    StoreDocument(be, st, doc, NotFound, fault)

\* the body of the loop of add_documents for one document; st is
\* [ds, fs, mi, now, added, updated, skipped, errors]; fault is how the
\* storage step of this document ends
AddDocument(be, st, doc, update_existing, fault) ==
    LET existing == GetDocument(be, st.ds, st.fs, doc.doc_id)
    IN IF existing.found /\ ~update_existing
       THEN [st EXCEPT !.skipped = @ + 1]
       ELSE StoreDocument(be, st, doc, existing, fault)

\* the loop of add_documents
RECURSIVE AddLoop(_, _, _, _, _)
AddLoop(be, st, documents, update_existing, faults) ==
    IF documents = <<>> THEN st
    ELSE AddLoop(be, AddDocument(be, st, Head(documents), update_existing, Head(faults)),
                 Tail(documents), update_existing, Tail(faults))

\* what add_documents and delete_document return: the counts and errors of
\* add_documents, the boolean of delete_document; docs is the list
\* search_by_metadata returns; raised tells that the call ended with an
\* exception instead of returning
\* the statistics get_statistics returns: the three counts every return has,
\* and the two breakdowns a non-empty store adds
Statistics(total_documents, total_chars, avg_chars, by_file_type, by_language) ==
    [total_documents |-> total_documents, total_chars |-> total_chars,
     avg_chars |-> avg_chars, by_file_type |-> by_file_type, by_language |-> by_language]
NoStatistics == Statistics(0, 0, 0, EmptyFn, EmptyFn)

\* the locals of add_documents and delete_document between two of their
\* statements: pc is the statement to run next
Frame(op, pc, documents, update_existing, doc_id) ==
    [op |-> op, pc |-> pc, documents |-> documents, update_existing |-> update_existing,
     doc_id |-> doc_id, doc |-> NoDoc, existing |-> FALSE,
     added |-> 0, updated |-> 0, skipped |-> 0, errors |-> <<>>]
Idle == Frame("", "idle", <<>>, TRUE, "")

StoreRet(added, updated, skipped, errors, ok) ==
    [added |-> added, updated |-> updated, skipped |-> skipped, errors |-> errors, ok |-> ok,
     docs |-> {}, raised |-> FALSE, statistics |-> NoStatistics]

StoreCall(op, documents, update_existing, doc_id) ==
    [op |-> op, documents |-> documents, update_existing |-> update_existing, doc_id |-> doc_id,
     filters |-> <<>>, match_all |-> TRUE, faults |-> <<>>, pfault |-> NoPersistFault]

\* faults: how the storage step of each document ends; pf: the snapshot
\* write of the closing persist() that fails, if one does
add_documents(documents, update_existing, faults, pf) ==
    LET st0 == [ds |-> docstore, fs |-> files, mi |-> metadata_index, now |-> now,
                added |-> 0, updated |-> 0, skipped |-> 0, errors |-> <<>>]
        st == AddLoop(backend, st0, documents, update_existing, faults)
    IN /\ st.now <= MaxStamp
       /\ docstore' = st.ds
       /\ metadata_index' = st.mi
       /\ files' = Persist(backend, st.ds, st.fs, st.mi, pf)
       /\ now' = st.now
       /\ store_call' = [StoreCall("add_documents", documents, update_existing, "") EXCEPT
                            !.faults = faults, !.pfault = pf]
       /\ store_ret' = StoreRet(st.added, st.updated, st.skipped, st.errors, TRUE)
       /\ UNCHANGED <<backend, indexVars, writer>>

delete_document(doc_id, pf) ==
    /\ store_call' = [StoreCall("delete_document", <<>>, TRUE, doc_id) EXCEPT !.pfault = pf]
    /\ UNCHANGED <<backend, now, indexVars, writer>>
    /\ IF backend # "json" /\ doc_id \notin DOMAIN docstore
       THEN \* docstore.delete_document raises ValueError: return False
            /\ store_ret' = StoreRet(0, 0, 0, <<>>, FALSE)
            /\ UNCHANGED <<docstore, files, metadata_index>>
       ELSE /\ docstore' = IF backend = "json" THEN docstore ELSE Drop(docstore, doc_id)
            /\ metadata_index' = Drop(metadata_index, doc_id)
            /\ files' = Persist(backend, docstore',
                                IF backend = "json" THEN Drop(files, doc_id) ELSE files,
                                metadata_index', pf)
            /\ store_ret' = StoreRet(0, 0, 0, <<>>, TRUE)

\* DocumentStoreManager.persist called by the user of the store
store_persist(pf) ==
    /\ store_call' = [StoreCall("persist", <<>>, TRUE, "") EXCEPT !.pfault = pf]
    /\ files' = Persist(backend, docstore, files, metadata_index, pf)
    /\ store_ret' = StoreRet(0, 0, 0, <<>>, TRUE)
    /\ UNCHANGED <<backend, docstore, metadata_index, now, indexVars, writer>>

(***************************************************************************)
(* DocumentStoreManager.search_by_metadata                                 *)
(***************************************************************************)
\* Python's x == y on metadata values: numbers and booleans compare by value
\* (True == 1), a list never equals a tuple
PyEq(x, y) ==
    IF x.tag \in {"num", "bool"} /\ y.tag \in {"num", "bool"} THEN x.n = y.n
    ELSE x = y

\* Python's x in l for a list l of strings
PyIn(x, l) == x.tag = "str" /\ \E i \in 1..Len(l) : l[i] = x.s

\* one entry of matches: the comparison of one filter with a record's metadata
FilterMatches(metadata, flt) ==
    IF flt.field \in DOMAIN metadata
    THEN IF flt.value.tag = "seq" THEN PyIn(metadata[flt.field], flt.value.l)
         ELSE PyEq(metadata[flt.field], flt.value)
    ELSE FALSE

\* the documents search_by_metadata returns, as a set: the entries of
\* metadata_index whose matches are all (match_all) or any true, resolved by
\* get_document and dropped when that returns None
SearchByMetadata(be, ds, fs, mi, filters, match_all) ==
    LET Hit(id) == IF match_all
                   THEN \A i \in 1..Len(filters) : FilterMatches(mi[id], filters[i])
                   ELSE \E i \in 1..Len(filters) : FilterMatches(mi[id], filters[i])
    IN { GetDocument(be, ds, fs, id).doc :
            id \in { x \in DOMAIN mi : Hit(x) /\ GetDocument(be, ds, fs, x).found } }

\* the filters the callers of search_by_metadata pass: an exact value, the
\* same value in another case and padded, a number, a list, two fields, none
StoreFilters ==
    { <<>>, <<Flt("a", V_IT)>>, <<Flt("a", V_itPad)>>, <<Flt("b", V_7)>>,
      <<Flt("a", SeqV(<<S_hr, S_IT>>))>>, <<Flt("a", V_hr), Flt("b", V_7)>> }

search_by_metadata(filters, match_all) ==
    /\ store_call' = [StoreCall("search_by_metadata", <<>>, TRUE, "") EXCEPT
                         !.filters = filters, !.match_all = match_all]
    /\ store_ret' = [StoreRet(0, 0, 0, <<>>, TRUE) EXCEPT
                         !.docs = SearchByMetadata(backend, docstore, files, metadata_index,
                                                   filters, match_all)]
    /\ UNCHANGED <<backend, docstore, files, metadata_index, now, indexVars, writer>>

(***************************************************************************)
(* The process ending inside a call of the store, and a new                *)
(* DocumentStoreManager on the same persist_path.                          *)
(***************************************************************************)
\* where the process ends inside persist(): before or inside the write of
\* docstore.json, before or inside the write of metadata_index.json
StoreStops ==
    { PersistFault(file, how) : file \in {"docstore", "metadata_index"}, how \in {"open", "dump"} }

\* the process ends inside the persist() that closes add_documents, after the
\* loop stored the documents: the files are left as written so far and the
\* DocumentStoreManager object is gone
add_documents_crash(documents, update_existing, pf) ==
    LET st0 == [ds |-> docstore, fs |-> files, mi |-> metadata_index, now |-> now,
                added |-> 0, updated |-> 0, skipped |-> 0, errors |-> <<>>]
        st == AddLoop(backend, st0, documents, update_existing, NoFaults(documents))
    IN /\ st.now <= MaxStamp
       /\ files' = Persist(backend, st.ds, st.fs, st.mi, pf)
       /\ now' = st.now
       /\ docstore' = EmptyFn
       /\ metadata_index' = EmptyFn
       /\ store_call' = [StoreCall("crash", documents, update_existing, "") EXCEPT !.pfault = pf]
       /\ store_ret' = StoreRet(0, 0, 0, <<>>, TRUE)
       /\ UNCHANGED <<backend, indexVars, writer>>

\* the process ends inside the persist() of delete_document, after the record
\* was removed (the file unlinked for the json backend)
delete_document_crash(doc_id, pf) ==
    /\ backend = "json" \/ doc_id \in DOMAIN docstore
    /\ files' = Persist(backend, Drop(docstore, doc_id),
                        IF backend = "json" THEN Drop(files, doc_id) ELSE files,
                        Drop(metadata_index, doc_id), pf)
    /\ docstore' = EmptyFn
    /\ metadata_index' = EmptyFn
    /\ store_call' = [StoreCall("crash", <<>>, TRUE, doc_id) EXCEPT !.pfault = pf]
    /\ store_ret' = StoreRet(0, 0, 0, <<>>, TRUE)
    /\ UNCHANGED <<backend, now, indexVars, writer>>

\* DocumentStoreManager.__init__ on the persist_path of an earlier instance:
\* _init_docstore reads docstore.json when it exists (simple backend), then
\* _load_metadata_index reads metadata_index.json when it exists; neither
\* catches what json raises on a part-written file. The documents handed to
\* the store are never named metadata_index here, so that file holds an index.
reopen ==
    LET storeFile == backend = "simple" /\ "docstore" \in DOMAIN files
        indexFile == "metadata_index" \in DOMAIN files
        raises == \/ storeFile /\ files["docstore"].kind = "partial"
                  \/ indexFile /\ files["metadata_index"].kind = "partial"
        docs == files["docstore"].docs
    IN /\ docstore' = IF storeFile /\ ~raises
                      THEN [k \in DOMAIN docs |-> JsonDocument(docs[k])] ELSE EmptyFn
       /\ metadata_index' = IF indexFile /\ ~raises
                            THEN JsonMetadata(files["metadata_index"].index) ELSE EmptyFn
       /\ store_call' = StoreCall("reopen", <<>>, TRUE, "")
       /\ store_ret' = [StoreRet(0, 0, 0, <<>>, TRUE) EXCEPT !.raised = raises]
       /\ UNCHANGED <<backend, files, now, indexVars, writer>>

(***************************************************************************)
(* DocumentStoreManager.get_statistics.                                     *)
(***************************************************************************)
\* sum(len(doc.text) for doc in docs)
RECURSIVE TotalChars(_, _)
TotalChars(docs, ids) ==
    IF ids = {} THEN 0
    ELSE LET x == CHOOSE y \in ids : TRUE
         IN Len(docs[x].text) + TotalChars(docs, ids \ {x})

S_unknown == <<"u", "n", "k", "n", "o", "w", "n">>

\* the loops over metadata_index.items(): how many entries have each value of
\* metadata.get(field, 'unknown')
CountBy(mi, field) ==
    LET Of(id) == IF field \in DOMAIN mi[id] THEN mi[id][field] ELSE StrV(S_unknown)
    IN [v \in { Of(id) : id \in DOMAIN mi } |->
            Cardinality({ id \in DOMAIN mi : Of(id) = v })]

GetStatistics(be, ds, fs, mi) ==
    LET docs == GetAllDocuments(be, ds, fs)
        n == Cardinality(DOMAIN docs)
        total_chars == TotalChars(docs, DOMAIN docs)
    IN IF n = 0 THEN NoStatistics
       ELSE Statistics(n, total_chars, total_chars \div n,
                       CountBy(mi, "file_type"), CountBy(mi, "language"))

get_statistics ==
    /\ store_call' = StoreCall("get_statistics", <<>>, TRUE, "")
    /\ store_ret' = [StoreRet(0, 0, 0, <<>>, TRUE) EXCEPT
                        !.statistics = GetStatistics(backend, docstore, files, metadata_index)]
    /\ UNCHANGED <<backend, docstore, files, metadata_index, now, indexVars, writer>>

get_document(doc_id) ==
    /\ store_call' = StoreCall("get_document", <<>>, TRUE, doc_id)
    /\ store_ret' = LET got == GetDocument(backend, docstore, files, doc_id)
                    IN [StoreRet(0, 0, 0, <<>>, got.found) EXCEPT
                           !.docs = IF got.found THEN {got.doc} ELSE {}]
    /\ UNCHANGED <<backend, docstore, files, metadata_index, now, indexVars, writer>>

(***************************************************************************)
(* add_documents and delete_document taken one statement at a time, as     *)
(* another thread calling the same DocumentStoreManager sees them: neither *)
(* method takes a lock.  The other thread's own calls are whole actions.   *)
(***************************************************************************)
\* add_documents is called: results is initialised, the loop not yet entered
add_call(documents, update_existing) ==
    /\ writer.pc = "idle"
    /\ writer' = Frame("add_documents", "loop", documents, update_existing, "")
    /\ UNCHANGED <<backend, docstore, files, metadata_index, store_call, store_ret,
                   now, indexVars>>

\* the head of the loop body: the lookup, the skip and the timestamps
add_lookup ==
    /\ writer.op = "add_documents" /\ writer.pc = "loop" /\ writer.documents # <<>>
    /\ LET doc == Head(writer.documents)
           existing == GetDocument(backend, docstore, files, doc.doc_id)
           t1 == now + 1
           t2 == IF existing.found THEN t1 + 1 ELSE t1
           md1 == Put(doc.metadata, "stored_at", IsoFormat(t1))
           md2 == IF existing.found THEN Put(md1, "updated_at", IsoFormat(t2)) ELSE md1
       IN IF existing.found /\ ~writer.update_existing
          THEN /\ writer' = [writer EXCEPT !.skipped = @ + 1, !.documents = Tail(@)]
               /\ now' = now
          ELSE /\ t2 <= MaxStamp
               /\ writer' = [writer EXCEPT !.pc = "store", !.existing = existing.found,
                                           !.doc = Doc(doc.doc_id, doc.text, md2)]
               /\ now' = t2
    /\ UNCHANGED <<backend, docstore, files, metadata_index, store_call, store_ret, indexVars>>

\* the document is written to the store
add_store ==
    /\ writer.op = "add_documents" /\ writer.pc = "store"
    /\ files' = IF backend = "json"
                THEN Put(files, StoreKey(writer.doc), DocFile(writer.doc)) ELSE files
    /\ docstore' = IF backend = "json" THEN docstore
                   ELSE Put(docstore, StoreKey(writer.doc), writer.doc)
    /\ writer' = [writer EXCEPT !.pc = "index"]
    /\ UNCHANGED <<backend, metadata_index, store_call, store_ret, now, indexVars>>

\* _update_metadata_index and the count of the document
add_index ==
    /\ writer.op = "add_documents" /\ writer.pc = "index"
    /\ metadata_index' = Put(metadata_index, writer.doc.doc_id, writer.doc.metadata)
    /\ writer' = [writer EXCEPT !.pc = "loop", !.documents = Tail(@),
                                !.added = IF writer.existing THEN @ ELSE @ + 1,
                                !.updated = IF writer.existing THEN @ + 1 ELSE @]
    /\ UNCHANGED <<backend, docstore, files, store_call, store_ret, now, indexVars>>

\* the loop is over: persist, and the results are returned
add_return ==
    /\ writer.op = "add_documents" /\ writer.pc = "loop" /\ writer.documents = <<>>
    /\ files' = Persist(backend, docstore, files, metadata_index, NoPersistFault)
    /\ store_call' = StoreCall("add_documents", <<>>, writer.update_existing, "")
    /\ store_ret' = StoreRet(writer.added, writer.updated, writer.skipped, writer.errors, TRUE)
    /\ writer' = Idle
    /\ UNCHANGED <<backend, docstore, metadata_index, now, indexVars>>

\* delete_document is called and removes the document from the store; on the
\* simple backend a missing id raises and False is returned at once
delete_store(doc_id) ==
    /\ writer.pc = "idle"
    /\ IF backend # "json" /\ doc_id \notin DOMAIN docstore
       THEN /\ store_call' = StoreCall("delete_document", <<>>, TRUE, doc_id)
            /\ store_ret' = StoreRet(0, 0, 0, <<>>, FALSE)
            /\ UNCHANGED <<docstore, files, writer>>
       ELSE /\ docstore' = IF backend = "json" THEN docstore ELSE Drop(docstore, doc_id)
            /\ files' = IF backend = "json" THEN Drop(files, doc_id) ELSE files
            /\ writer' = Frame("delete_document", "index", <<>>, TRUE, doc_id)
            /\ UNCHANGED <<store_call, store_ret>>
    /\ UNCHANGED <<backend, metadata_index, now, indexVars>>

\* the id is removed from metadata_index
delete_index ==
    /\ writer.op = "delete_document" /\ writer.pc = "index"
    /\ metadata_index' = Drop(metadata_index, writer.doc_id)
    /\ writer' = [writer EXCEPT !.pc = "persist"]
    /\ UNCHANGED <<backend, docstore, files, store_call, store_ret, now, indexVars>>

\* persist, and True is returned
delete_return ==
    /\ writer.op = "delete_document" /\ writer.pc = "persist"
    /\ files' = Persist(backend, docstore, files, metadata_index, NoPersistFault)
    /\ store_call' = StoreCall("delete_document", <<>>, TRUE, writer.doc_id)
    /\ store_ret' = StoreRet(0, 0, 0, <<>>, TRUE)
    /\ writer' = Idle
    /\ UNCHANGED <<backend, docstore, metadata_index, now, indexVars>>

\* MetadataIndex.__init__ on an empty persist_path; the store is not used
Init ==
    /\ field_index = EmptyFn
    /\ node_metadata = EmptyFn
    /\ stats = [total_nodes |-> 0, indexed_fields |-> {}, last_updated |-> 0]
    /\ now = 0
    /\ call = Call("init", "", <<>>, TRUE, <<>>)
    /\ ret = NoRet
    /\ disk = [field_index |-> NoFile, node_metadata |-> NoFile, stats |-> NoFile]
    /\ backend = "simple"
    /\ docstore = EmptyFn
    /\ files = EmptyFn
    /\ metadata_index = EmptyFn
    /\ store_call = StoreCall("init", <<>>, TRUE, "")
    /\ store_ret = StoreRet(0, 0, 0, <<>>, TRUE)
    /\ writer = Idle

\* the index under index_nodes, delete_node, clear, search and range_search
Next ==
    \/ \E c \in IndexCalls : index_nodes(c[1], c[2])
    \/ \E node_id \in NodeIds : delete_node(node_id)
    \/ clear
    \/ \E filters \in CallFilters, match_all \in BOOLEAN : search(filters, match_all)
    \/ \E c \in RangeCalls : range_search(c[1], c[2], c[3])

Spec == Init /\ [][Next]_vars

\* the same with every index_nodes call indexing all the fields of its nodes
\* (fields_to_index = None)
DefaultNext ==
    \/ \E nodes \in NodeBatches : index_nodes(nodes, NoFields)
    \/ \E node_id \in NodeIds : delete_node(node_id)
    \/ \E filters \in CallFilters, match_all \in BOOLEAN : search(filters, match_all)
    \/ \E c \in RangeCalls : range_search(c[1], c[2], c[3])

DefaultSpec == Init /\ [][DefaultNext]_vars

\* the index under index_nodes, delete_node, clear and hybrid_search
HybridNext ==
    \/ \E c \in IndexCalls : index_nodes(c[1], c[2])
    \/ \E node_id \in NodeIds : delete_node(node_id)
    \/ clear
    \/ \E vector_results \in CandChoices, filters \in HybridFilters :
          hybrid_search(vector_results, filters)

HybridSpec == Init /\ [][HybridNext]_vars

\* the index under index_nodes, delete_node and clear, persisted and loaded
\* into a new MetadataIndex on the same path
PersistNext ==
    \/ \E c \in IndexCalls : index_nodes(c[1], c[2])
    \/ \E node_id \in NodeIds : delete_node(node_id)
    \/ clear
    \/ persist
    \/ load

PersistSpec == Init /\ [][PersistNext]_vars

\* DocumentStoreManager.__init__ on an empty persist_path, for either backend;
\* the MetadataIndex is not used
StoreInit ==
    /\ backend \in {"simple", "json"}
    /\ docstore = EmptyFn
    /\ files = EmptyFn
    /\ metadata_index = EmptyFn
    /\ store_call = StoreCall("init", <<>>, TRUE, "")
    /\ store_ret = StoreRet(0, 0, 0, <<>>, TRUE)
    /\ now = 0
    /\ field_index = EmptyFn
    /\ node_metadata = EmptyFn
    /\ stats = [total_nodes |-> 0, indexed_fields |-> {}, last_updated |-> 0]
    /\ call = Call("init", "", <<>>, TRUE, <<>>)
    /\ ret = NoRet
    /\ disk = [field_index |-> NoFile, node_metadata |-> NoFile, stats |-> NoFile]
    /\ writer = Idle

\* the store under add_documents and delete_document
StoreNext ==
    \/ \E documents \in DocBatches, update_existing \in BOOLEAN :
          add_documents(documents, update_existing, NoFaults(documents), NoPersistFault)
    \/ \E doc_id \in DocIds : delete_document(doc_id, NoPersistFault)

StoreSpec == StoreInit /\ [][StoreNext]_vars

\* the store under add_documents, delete_document and search_by_metadata
StoreSearchNext ==
    \/ \E documents \in DocBatches, update_existing \in BOOLEAN :
          add_documents(documents, update_existing, NoFaults(documents), NoPersistFault)
    \/ \E doc_id \in DocIds : delete_document(doc_id, NoPersistFault)
    \/ \E filters \in StoreFilters, match_all \in BOOLEAN :
          search_by_metadata(filters, match_all)

StoreSearchSpec == StoreInit /\ [][StoreSearchNext]_vars

\* the document lists handed to a store whose writes may fail: one document,
\* two ids, one id twice
FaultBatches ==
    { << Doc("d1", "t1", [a |-> V_IT]) >>,
      << Doc("d1", "t1", [a |-> V_IT]), Doc("d2", "t2", [a |-> V_hr]) >>,
      << Doc("d1", "t1", [a |-> V_IT]), Doc("d1", "t2", [a |-> V_hr]) >> }

\* the snapshot writes of persist() that fail
PersistFaults ==
    { NoPersistFault, PersistFault("docstore", "dump"),
      PersistFault("metadata_index", "open"), PersistFault("metadata_index", "dump") }

\* the store under add_documents and delete_document, the storage step of
\* each document ending in any of the ways of Faults
FaultNext ==
    \/ \E documents \in FaultBatches, update_existing \in BOOLEAN :
          \E faults \in [1..Len(documents) -> Faults] :
              add_documents(documents, update_existing, faults, NoPersistFault)
    \/ \E doc_id \in {"d1", "d2"} : delete_document(doc_id, NoPersistFault)

FaultSpec == StoreInit /\ [][FaultNext]_vars

\* the store under add_documents, delete_document and persist, a snapshot
\* write of persist() failing or not
PersistFaultNext ==
    \/ \E documents \in FaultBatches, update_existing \in BOOLEAN, pf \in PersistFaults :
          add_documents(documents, update_existing, NoFaults(documents), pf)
    \/ \E doc_id \in {"d1", "d2"}, pf \in PersistFaults : delete_document(doc_id, pf)
    \/ \E pf \in PersistFaults : store_persist(pf)

PersistFaultSpec == StoreInit /\ [][PersistFaultNext]_vars

\* the index under index_nodes, delete_node, clear and persist, with the
\* process ending inside persist() and a new MetadataIndex loading what that
\* left on the path
CrashNext ==
    \/ call.op # "crash" /\ \E c \in IndexCalls : index_nodes(c[1], c[2])
    \/ call.op # "crash" /\ \E node_id \in NodeIds : delete_node(node_id)
    \/ call.op # "crash" /\ clear
    \/ call.op # "crash" /\ persist
    \/ call.op # "crash" /\ \E stop \in Stops : persist_crash(stop)
    \/ load

CrashSpec == Init /\ [][CrashNext]_vars

\* a DocumentStoreManager object exists: the process did not end and the last
\* constructor call returned
StoreLive == store_call.op # "crash" /\ ~store_ret.raised

\* the store under add_documents and delete_document, with the process ending
\* inside the persist() of either and a new DocumentStoreManager opened on
\* the same path
StoreCrashNext ==
    \/ StoreLive /\ \E documents \in FaultBatches, update_existing \in BOOLEAN :
          add_documents(documents, update_existing, NoFaults(documents), NoPersistFault)
    \/ StoreLive /\ \E doc_id \in {"d1", "d2"} : delete_document(doc_id, NoPersistFault)
    \/ StoreLive /\ \E documents \in FaultBatches, update_existing \in BOOLEAN, pf \in StoreStops :
          add_documents_crash(documents, update_existing, pf)
    \/ StoreLive /\ \E doc_id \in {"d1", "d2"}, pf \in StoreStops :
          delete_document_crash(doc_id, pf)
    \/ reopen

StoreCrashSpec == StoreInit /\ [][StoreCrashNext]_vars

\* the document lists, ids and filters of a store that is opened again:
\* metadata values of every kind, a tuple among them
V_tup == TupV(<<S_a, S_b>>)
RoundTripBatches ==
    { << Doc("d1", "t1", [a |-> V_IT, b |-> V_7]) >>,
      << Doc("d1", "t2", [a |-> V_tup, b |-> V_true]) >>,
      << Doc("d2", "t1", [a |-> V_ba]) >> }
RoundTripFilters ==
    { <<>>, <<Flt("a", V_IT)>>, <<Flt("a", V_tup)>>, <<Flt("a", V_ba)>>, <<Flt("b", V_7)>> }

\* the store under add_documents and delete_document, and a new
\* DocumentStoreManager opened on the same path
ReopenNext ==
    \/ StoreLive /\ \E documents \in RoundTripBatches, update_existing \in BOOLEAN :
          add_documents(documents, update_existing, NoFaults(documents), NoPersistFault)
    \/ StoreLive /\ \E doc_id \in {"d1", "d2"} : delete_document(doc_id, NoPersistFault)
    \/ reopen

ReopenSpec == StoreInit /\ [][ReopenNext]_vars

\* the index under index_nodes with every field indexed, delete_node and
\* persist, and a new MetadataIndex loaded from the same path
RestoreNext ==
    \/ \E nodes \in NodeBatches : index_nodes(nodes, NoFields)
    \/ \E node_id \in NodeIds : delete_node(node_id)
    \/ persist
    \/ load

RestoreSpec == Init /\ [][RestoreNext]_vars

\* _normalize_value called on every value of NormInputs, the values it
\* returns among them
NormNext == \E value \in NormInputs : normalize_value(value)

NormSpec == Init /\ [][NormNext]_vars

\* the calls of range_search on its own: an indexed field of numbers, one of
\* strings and a field no node has; each bound absent, a number or a string
RangeFields == {"a", "b", "c"}
RangeBoundChoices == { NoBound, Bound(V_7), Bound(V_12), Bound(StrV(S_it)) }

\* the index under index_nodes with every field indexed, delete_node and
\* range_search
RangeNext ==
    \/ \E nodes \in NodeBatches : index_nodes(nodes, NoFields)
    \/ \E node_id \in NodeIds : delete_node(node_id)
    \/ \E field \in RangeFields, lo \in RangeBoundChoices, hi \in RangeBoundChoices :
          range_search(field, lo, hi)

RangeSpec == Init /\ [][RangeNext]_vars

\* the batches and filters of the threads: two ids, a document stored again
\* with other metadata
ThreadBatches ==
    { << Doc("d1", "t1", [a |-> V_IT]) >>,
      << Doc("d1", "t2", [a |-> V_hr]) >>,
      << Doc("d2", "t2", [a |-> V_hr]) >> }
ThreadFilters == { <<Flt("a", V_IT)>>, <<Flt("a", V_hr)>> }

\* one thread in add_documents or delete_document, statement by statement,
\* and another calling get_document, search_by_metadata and get_statistics
ThreadNext ==
    \/ \E documents \in ThreadBatches, update_existing \in BOOLEAN :
          add_call(documents, update_existing)
    \/ add_lookup
    \/ add_store
    \/ add_index
    \/ add_return
    \/ \E doc_id \in {"d1", "d2"} : delete_store(doc_id)
    \/ delete_index
    \/ delete_return
    \/ \E doc_id \in {"d1", "d2"} : get_document(doc_id)
    \/ \E filters \in ThreadFilters, match_all \in BOOLEAN :
          search_by_metadata(filters, match_all)
    \/ get_statistics

ThreadSpec == StoreInit /\ [][ThreadNext]_vars

\* the index under index_nodes with every field indexed and delete_node, and
\* the two value listings of each field
CountsNext ==
    \/ \E nodes \in NodeBatches : index_nodes(nodes, NoFields)
    \/ \E node_id \in NodeIds : delete_node(node_id)
    \/ \E field \in RangeFields : get_unique_values(field)
    \/ \E field \in RangeFields : get_value_counts(field)

CountsSpec == Init /\ [][CountsNext]_vars

(***************************************************************************)
(* Claims on the MetadataIndex.                                            *)
(***************************************************************************)
\* search({field: value}, match_all=True)
SearchOne(field, value) ==
    SearchResult(field_index, node_metadata, <<Flt(field, value)>>, TRUE)

\* C1: index completeness. In every state the calls of the index reach, for
\* every id of node_metadata and every (field, value) pair of its metadata,
\* search({field: value}, match_all=True) includes the id.
C1_IndexCompleteness ==
    \A id \in DOMAIN node_metadata :
        \A field \in DOMAIN node_metadata[id] :
            id \in SearchOne(field, node_metadata[id][field])

\* C2: index soundness. Every id of a bucket field_index[f][k] is an id of
\* node_metadata whose current metadata has a value for f that normalizes to k.
C2_IndexSoundness ==
    \A f \in DOMAIN field_index :
        \A i \in 1..Len(field_index[f]) :
            \A id \in field_index[f][i].ids :
                /\ id \in DOMAIN node_metadata
                /\ f \in DOMAIN node_metadata[id]
                /\ NormalizeValue(node_metadata[id][f]) = field_index[f][i].key

\* the bounds a range_search is asked with
RangeBounds == { NoBound, Bound(V_7), Bound(V_12), Bound(V_hr), Bound(V_ab) }

\* C3: deletion correctness. Right after delete_node(id), no search (any
\* filters, either match mode) and no range_search returns id, and
\* get_node_metadata(id) is None.
C3_DeletionCorrect ==
    call.op = "delete_node" =>
        /\ ~GetNodeMetadataFound(node_metadata, call.id)
        /\ \A filters \in FilterChoices, match_all \in BOOLEAN :
              call.id \notin SearchResult(field_index, node_metadata, filters, match_all)
        /\ \A field \in Fields, lo \in RangeBounds, hi \in RangeBounds :
              call.id \notin RangeIds(field_index, field, lo, hi)

\* a filter that hits no bucket: its field is not indexed or its value absent
HitsNothing(flt) ==
    ~HasBucket(field_index, flt.field, NormalizeValue(flt.value))

\* the two-field filters {a: x, b: y}, in both insertion orders; x and y range
\* over values that hit a bucket and values that hit none
TwoFieldFilters ==
    LET AValues == { V_IT, V_ab, V_7 }
        BValues == { V_7, V_12, V_true }
    IN { <<Flt("a", x), Flt("b", y)>> : x \in AValues, y \in BValues }
       \cup { <<Flt("b", y), Flt("a", x)>> : x \in AValues, y \in BValues }

\* C4: AND/OR correctness. For every two-field filter {a: x, b: y}, search with
\* match_all=True returns the intersection of search({a: x}) and
\* search({b: y}) and search with match_all=False returns their union, both
\* for the searches the callers made (compared in the state the call left)
\* and for every filter in every reachable index state; a filter that hits no
\* bucket contributes the empty set.
C4_AndOrCorrect ==
    /\ \A fs \in TwoFieldFilters :
             LET A == SearchOne(fs[1].field, fs[1].value)
                 B == SearchOne(fs[2].field, fs[2].value)
             IN /\ SearchResult(field_index, node_metadata, fs, TRUE) = A \cap B
                /\ SearchResult(field_index, node_metadata, fs, FALSE) = A \cup B
                /\ HitsNothing(fs[2]) =>
                      /\ SearchResult(field_index, node_metadata, fs, TRUE) = {}
                      /\ SearchResult(field_index, node_metadata, fs, FALSE) = A
    /\ (call.op = "search" /\ Len(call.filters) = 2) =>
          LET A == SearchOne(call.filters[1].field, call.filters[1].value)
              B == SearchOne(call.filters[2].field, call.filters[2].value)
          IN ret.ids = IF call.match_all THEN A \cap B ELSE A \cup B

\* a search with two filters and match_all=True has returned some but not all
\* of the indexed ids
C4_Witness ==
    /\ call.op = "search" /\ Len(call.filters) = 2 /\ call.match_all
    /\ ret.ids # {}
    /\ ret.ids # DOMAIN node_metadata

\* the subsequence of the candidates that are in allowed
Subsequence(cand, allowed) ==
    LET Allowed(id) == id \in allowed IN SelectSeq(cand, Allowed)

C6_HybridNoSideEffects ==
    [][ call'.op = "hybrid_search" => UNCHANGED <<field_index, node_metadata, stats>> ]_vars

\* C7: index round-trip. persist() followed by loading a new MetadataIndex
\* from the same path yields the same ids, the same metadata per id and the
\* same bucket membership: every search (any filters, either mode) and every
\* range_search returns what it returned before persisting.
C7_IndexRoundTrip ==
    [][ (call.op = "persist" /\ call'.op = "load") =>
           /\ node_metadata' = node_metadata
           /\ \A filters \in FilterChoices, match_all \in BOOLEAN :
                 SearchResult(field_index', node_metadata', filters, match_all)
                    = SearchResult(field_index, node_metadata, filters, match_all)
           /\ \A field \in Fields, lo \in RangeBounds, hi \in RangeBounds :
                 RangeIds(field_index', field, lo, hi) = RangeIds(field_index, field, lo, hi)
      ]_vars

(***************************************************************************)
(* Claims on the DocumentStoreManager.                                     *)
(***************************************************************************)
\* get_all_documents() in the current state, by storage key
AllDocuments == GetAllDocuments(backend, docstore, files)

\* C8: the store and its metadata index never diverge. After any add_documents
\* and delete_document calls, the ids keyed in metadata_index are the ids of
\* the documents get_all_documents returns, and each entry equals the stored
\* document's current metadata.
C8_StoreIndexAgree ==
    /\ DOMAIN metadata_index = { AllDocuments[k].doc_id : k \in DOMAIN AllDocuments }
    /\ \A k \in DOMAIN AllDocuments :
          /\ AllDocuments[k].doc_id \in DOMAIN metadata_index
          /\ metadata_index[AllDocuments[k].doc_id] = AllDocuments[k].metadata

\* C9: uniqueness. After any add_documents calls (new and repeated ids, either
\* value of update_existing) and delete_document calls, get_all_documents
\* holds at most one record per id.
C9_Uniqueness ==
    \A k1 \in DOMAIN AllDocuments, k2 \in DOMAIN AllDocuments :
        AllDocuments[k1].doc_id = AllDocuments[k2].doc_id => k1 = k2

\* add_documents has taken a list that holds the id d1 twice, added the first
\* and updated it with the second, and get_all_documents holds the second
C9_Witness ==
    /\ store_call.op = "add_documents" /\ Len(store_call.documents) = 2
    /\ store_call.documents[1].doc_id = "d1" /\ store_call.documents[2].doc_id = "d1"
    /\ store_ret.added = 1 /\ store_ret.updated = 1
    /\ \E k \in DOMAIN AllDocuments :
          AllDocuments[k].doc_id = "d1" /\ AllDocuments[k].text = store_call.documents[2].text

\* the positions of a document list that add_documents skips when
\* update_existing is False: the id is stored already or met earlier in the list
SkippedPositions(documents) ==
    { i \in 1..Len(documents) :
         \/ GetDocument(backend, docstore, files, documents[i].doc_id).found
         \/ \E j \in 1..(i - 1) : documents[j].doc_id = documents[i].doc_id }

\* C10: skip leaves state unchanged. add_documents with update_existing=False
\* counts a record whose id exists already as skipped and leaves the stored
\* record (text, metadata with stored_at and updated_at) and the
\* metadata_index entry of that id as they were.
C10_SkipUnchanged ==
    [][ (store_call'.op = "add_documents" /\ ~store_call'.update_existing) =>
           /\ store_ret'.skipped = Cardinality(SkippedPositions(store_call'.documents))
           /\ \A i \in 1..Len(store_call'.documents) :
                 LET id == store_call'.documents[i].doc_id
                     before == GetDocument(backend, docstore, files, id)
                 IN before.found =>
                       /\ GetDocument(backend', docstore', files', id) = before
                       /\ (id \in DOMAIN metadata_index') = (id \in DOMAIN metadata_index)
                       /\ id \in DOMAIN metadata_index =>
                             metadata_index'[id] = metadata_index[id]
      ]_vars

\* add_documents with update_existing=False has skipped a document whose text
\* differs from the stored one, and the stored one is still there
C10_Witness ==
    /\ store_call.op = "add_documents" /\ ~store_call.update_existing
    /\ Len(store_call.documents) = 1 /\ store_ret.skipped = 1
    /\ LET d == GetDocument(backend, docstore, files, store_call.documents[1].doc_id)
       IN d.found /\ d.doc.text # store_call.documents[1].text

\* C11: timestamps. For every add_documents with update_existing=True naming
\* an id the store holds already, the record keeps the stored_at it had and
\* carries an updated_at later than that stored_at.
C11_Timestamps ==
    [][ (store_call'.op = "add_documents" /\ store_call'.update_existing) =>
           \A i \in 1..Len(store_call'.documents) :
              LET id == store_call'.documents[i].doc_id
                  before == GetDocument(backend, docstore, files, id)
                  after == GetDocument(backend', docstore', files', id)
              IN (before.found /\ after.found) =>
                    /\ after.doc.metadata["stored_at"] = before.doc.metadata["stored_at"]
                    /\ "updated_at" \in DOMAIN after.doc.metadata
                    /\ StrLess(after.doc.metadata["stored_at"].s,
                               after.doc.metadata["updated_at"].s)
      ]_vars

\* the elements of a finite set of ids as a list
RECURSIVE SeqOfSet(_)
SeqOfSet(ids) ==
    IF ids = {} THEN <<>>
    ELSE LET id == CHOOSE x \in ids : TRUE IN <<id>> \o SeqOfSet(ids \ {id})

\* a MetadataIndex built by index_nodes over the records of the store, each
\* record a node with its id and its metadata
IndexOfStore ==
    LET docs == AllDocuments
        NodeOf(k) == Node(docs[k].doc_id, docs[k].metadata)
        keys == SeqOfSet(DOMAIN docs)
    IN IndexLoop([fi |-> EmptyFn, nm |-> EmptyFn, ifs |-> {}],
                 [i \in 1..Len(keys) |-> NodeOf(keys[i])], NoFields)

\* C12: search_by_metadata delegates to the Metadata Index. For every store
\* state, filters and match mode, the ids of the documents search_by_metadata
\* returns are the ids MetadataIndex.search returns for the same filters over
\* an index of the same records' metadata.
C12_SearchDelegates ==
    store_call.op = "search_by_metadata" =>
        { d.doc_id : d \in store_ret.docs }
           = SearchResult(IndexOfStore.fi, IndexOfStore.nm,
                          store_call.filters, store_call.match_all)

\* the state add_documents starts its loop in
LoopStart ==
    [ds |-> docstore, fs |-> files, mi |-> metadata_index, now |-> now,
     added |-> 0, updated |-> 0, skipped |-> 0, errors |-> <<>>]

\* the positions of a document list whose storage step runs and fails: the
\* record is not skipped and its write does not complete
FailedPositions(documents, update_existing, faults) ==
    { i \in 1..Len(documents) :
         LET sti == AddLoop(backend, LoopStart, SubSeq(documents, 1, i - 1),
                            update_existing, SubSeq(faults, 1, i - 1))
         IN /\ faults[i] # "none"
            /\ ~(GetDocument(backend, sti.ds, sti.fs, documents[i].doc_id).found
                  /\ ~update_existing) }

\* the list without the elements at the positions of out
Without(l, out) ==
    LET F[i \in 0..Len(l)] ==
           IF i = 0 THEN <<>>
           ELSE IF i \in out THEN F[i - 1] ELSE Append(F[i - 1], l[i])
    IN F[Len(l)]

\* two results of get_document that agree on presence, text, metadata keys and
\* every metadata value but the time stamps
SameRecord(x, y) ==
    /\ x.found = y.found
    /\ x.found =>
          /\ x.doc.text = y.doc.text
          /\ DOMAIN x.doc.metadata = DOMAIN y.doc.metadata
          /\ \A k \in DOMAIN x.doc.metadata \ {"stored_at", "updated_at"} :
                x.doc.metadata[k] = y.doc.metadata[k]

\* C13: partial-failure isolation. add_documents does not raise; errors names
\* the records whose storage step failed, in list order; the counts and, for
\* every other record of the list, the stored record are those of the same
\* call on the list without the failing records.
C13_PartialFailure ==
    [][ store_call'.op = "add_documents" =>
           LET docs == store_call'.documents
               ue == store_call'.update_existing
               failed == FailedPositions(docs, ue, store_call'.faults)
               kept == Without(docs, failed)
               ref == AddLoop(backend, LoopStart, kept, ue, NoFaults(kept))
           IN /\ ~store_ret'.raised
              /\ store_ret'.errors = Without([i \in 1..Len(docs) |-> docs[i].doc_id],
                                             (1..Len(docs)) \ failed)
              /\ store_ret'.added = ref.added
              /\ store_ret'.updated = ref.updated
              /\ store_ret'.skipped = ref.skipped
              /\ \A i \in (1..Len(docs)) \ failed :
                    SameRecord(GetDocument(backend', docstore', files', docs[i].doc_id),
                               GetDocument(backend, ref.ds, ref.fs, docs[i].doc_id))
      ]_vars

\* the last call reached persist() and a snapshot write of it failed
PersistFailed ==
    /\ store_call.op \in {"add_documents", "delete_document", "persist"}
    /\ store_call.pfault.fault # "none"
    /\ store_call.pfault.file = "docstore" => backend = "simple"
    /\ store_call.op = "delete_document" => store_ret.ok

\* C14: persistence failures are surfaced. When a snapshot write fails during
\* persist(), called directly or through add_documents or delete_document, the
\* call raises or returns an outcome that differs from the one of the same call
\* with every write completing: an entry in errors or a False.
C14_PersistFailureSurfaced ==
    PersistFailed =>
        \/ store_ret.raised
        \/ store_ret.errors # <<>>
        \/ store_call.op = "delete_document" /\ ~store_ret.ok

\* C15: crash-safe snapshot writes. After the process ended inside
\* MetadataIndex.persist, every snapshot file on the path is a complete
\* version, the previous or the new one: none is part-written.
C15_CrashSafeSnapshots ==
    call.op = "crash" =>
        \A i \in 1..3 : disk[SnapshotFiles[i]].exists => disk[SnapshotFiles[i]].valid

\* the ids the metadata index snapshot on disk lists
DiskIndexIds ==
    IF "metadata_index" \in DOMAIN files /\ files["metadata_index"].kind = "index"
    THEN DOMAIN files["metadata_index"].index ELSE {}

\* the ids of the records the store has on disk: the document files of the
\* json backend, the documents of docstore.json for the simple backend
DiskStoreIds ==
    IF backend = "json" THEN { x \in DOMAIN files : files[x].kind = "doc" }
    ELSE IF "docstore" \in DOMAIN files /\ files["docstore"].kind = "docstore"
         THEN DOMAIN files["docstore"].docs ELSE {}

\* C16: persist ordering. After the process ended at any point inside
\* add_documents or delete_document that left no file part-written, every id
\* the on-disk metadata index lists has a record in the on-disk store.
C16_PersistOrdering ==
    (store_call.op = "crash" /\ \A x \in DOMAIN files : files[x].kind # "partial")
        => DiskIndexIds \subseteq DiskStoreIds

\* C17: tolerant index load. Constructing a DocumentStoreManager over a path
\* whose metadata_index.json is missing or part-written, the files of the
\* documents being whole, does not raise.
C17_TolerantLoad ==
    (/\ store_call.op = "reopen"
     /\ \A x \in DOMAIN files : x # "metadata_index" => files[x].kind # "partial")
       => ~store_ret.raised

\* C18: a corrupt snapshot yields an empty index. A MetadataIndex loaded from
\* a path on which one of field_index.json, node_metadata.json and stats.json
\* is part-written has no buckets, an empty node_metadata and total_nodes 0.
C18_CorruptLoadsEmpty ==
    (call.op = "load" /\ \E i \in 1..3 : ~disk[SnapshotFiles[i]].valid) =>
        /\ field_index = EmptyFn
        /\ node_metadata = EmptyFn
        /\ stats.total_nodes = 0

\* C19: store round-trip and durability. A new DocumentStoreManager opened on
\* the path of a store after add_documents or delete_document returned gives
\* the same get_all_documents (ids, text, metadata) and, for every filter and
\* match mode, the same search_by_metadata result as the original instance.
C19_StoreRoundTrip ==
    [][ store_call'.op = "reopen" =>
           /\ GetAllDocuments(backend', docstore', files')
                 = GetAllDocuments(backend, docstore, files)
           /\ \A filters \in RoundTripFilters, match_all \in BOOLEAN :
                 SearchByMetadata(backend', docstore', files', metadata_index',
                                  filters, match_all)
                    = SearchByMetadata(backend, docstore, files, metadata_index,
                                       filters, match_all)
      ]_vars

\* the values a lookup asks for: those of FilterValues, a padded and
\* differently cased spelling, and a value no node has
LookupValues == FilterValues \cup { V_itPad, V_hr, V_ba }

\* lookup and indexing agree: for every node id with metadata value v in
\* field f, search({f: w}) returns id exactly when normalize(w) = normalize(v)
LookupAgrees ==
    \A id \in DOMAIN node_metadata :
        \A f \in DOMAIN node_metadata[id] :
            \A w \in LookupValues :
                (id \in SearchOne(f, w))
                   <=> (NormalizeValue(w) = NormalizeValue(node_metadata[id][f]))

\* C20: lookup and indexing agree on buckets in every reachable index state,
\* one restored from a snapshot included: a MetadataIndex loaded from the
\* snapshot of an index in which lookup and indexing agree is an index in
\* which they agree.
C20_LookupAgrees ==
    [][ (call.op = "persist" /\ call'.op = "load" /\ LookupAgrees) => LookupAgrees' ]_vars

\* the number of elements of l equal to x
Count(l, x) == Cardinality({ i \in 1..Len(l) : l[i] = x })

\* two lists holding the same elements, each as often, in any order
SameElements(l, m) ==
    /\ Len(l) = Len(m)
    /\ \A i \in 1..Len(l) : Count(l, l[i]) = Count(m, l[i])

\* C21: normalizer algebra. For every string, sequence, number and boolean v,
\* _normalize_value(v) is the value its definition gives (deterministic), is
\* a fixed point of _normalize_value (idempotent), is v itself when v is a
\* number or a boolean, and is the key of every sequence that holds the
\* elements of v in another order.
C21_NormalizerAlgebra ==
    call.op = "_normalize_value" =>
        LET v == call.value
            k == ret.value
        IN /\ k = NormalizeValue(v)
           /\ NormalizeValue(k) = k
           /\ v.tag \in {"num", "bool"} => k = v
           /\ v.tag \in {"seq", "tup"} =>
                 \A w \in NormInputs :
                    (w.tag \in {"seq", "tup"} /\ SameElements(w.l, v.l))
                       => NormalizeValue(w) = k

\* _normalize_value was handed the list ['b', 'a'] and returned ('a', 'b'),
\* the key of ['a', 'b']
C21_Witness ==
    /\ call.op = "_normalize_value"
    /\ call.value = V_ba
    /\ ret.value = TupV(<<S_a, S_b>>)
    /\ ret.value = NormalizeValue(V_ab)

\* x <= y for two values Python orders: strings by code point, numbers and
\* booleans by value, tuples element by element
Leq(x, y) ==
    CASE x.tag = "str" /\ y.tag = "str" -> x.s = y.s \/ StrLess(x.s, y.s)
      [] x.tag \in {"num", "bool"} /\ y.tag \in {"num", "bool"} -> x.n <= y.n
      [] x.tag = "tup" /\ y.tag = "tup" -> x.l = y.l \/ SeqLess(x.l, y.l)
      [] OTHER -> FALSE

\* min <= k <= max, an absent bound holding for every key
Within(k, lo, hi) ==
    /\ lo.given => Leq(lo.value, k)
    /\ hi.given => Leq(k, hi.value)

\* C22: range search. range_search(field, min, max) returns the ids of exactly
\* the buckets of field whose key k has min <= k <= max, in bucket order: both
\* bounds inclusive, an absent bound unbounded, a key that cannot be ordered
\* against a bound skipped without raising, and nothing for a field that is
\* not indexed.
C22_RangeSearch ==
    call.op = "range_search" =>
        /\ ~ret.raised
        /\ IF call.id \notin DOMAIN field_index THEN ret.list = <<>>
           ELSE LET In(b) == Within(b.key, call.min_value, call.max_value)
                    taken == SelectSeq(field_index[call.id], In)
                IN ret.list = [i \in 1..Len(taken) |-> taken[i].ids]

\* range_search('b', 12, 12) has returned the bucket of 12, whose key equals
\* both bounds, and left out the bucket of 7
C22_Witness ==
    /\ call.op = "range_search" /\ call.id = "b"
    /\ call.min_value = Bound(V_12) /\ call.max_value = Bound(V_12)
    /\ ret.list = << {"n2"} >>
    /\ HasBucket(field_index, "b", V_7) /\ Bucket(field_index, "b", V_7) = {"n1"}


\* the documents search_by_metadata can return, over every filter of the model
SearchableIds(be, ds, fs, mi) ==
    { d.doc_id : d \in UNION { SearchByMetadata(be, ds, fs, mi, filters, match_all) :
                                  filters \in StoreFilters, match_all \in BOOLEAN } }

\* C23: store delete. delete_document(id) raises nothing and returns a boolean
\* for every id; when it returns True, get_document(id) is None, id is not in
\* metadata_index and no search_by_metadata returns it; when id was neither
\* stored nor indexed, every other record and index entry is as before.
C23_StoreDelete ==
    [][ store_call'.op = "delete_document" =>
          LET id == store_call'.doc_id
              Get(x) == GetDocument(backend, docstore, files, x)
              Get1(x) == GetDocument(backend', docstore', files', x)
          IN /\ store_ret'.ok \in BOOLEAN /\ ~store_ret'.raised
             /\ store_ret'.ok =>
                   /\ ~Get1(id).found
                   /\ id \notin DOMAIN metadata_index'
                   /\ id \notin SearchableIds(backend', docstore', files', metadata_index')
             /\ (~Get(id).found /\ id \notin DOMAIN metadata_index) =>
                   /\ metadata_index' = metadata_index
                   /\ \A x \in DocIds \ {id} : Get1(x) = Get(x)
                   /\ GetAllDocuments(backend', docstore', files')
                         = GetAllDocuments(backend, docstore, files) ]_vars

\* delete_document('d1') has returned True on the simple backend, where True
\* means d1 was stored, and another document is still stored and indexed
C23_Witness ==
    /\ store_call.op = "delete_document" /\ store_call.doc_id = "d1"
    /\ store_ret.ok /\ backend = "simple"
    /\ "d1" \notin DOMAIN docstore /\ "d1" \notin DOMAIN metadata_index
    /\ "metadata_index" \in DOMAIN docstore /\ "metadata_index" \in DOMAIN metadata_index


RECURSIVE SumOver(_, _)
SumOver(f, keys) ==
    IF keys = {} THEN 0
    ELSE LET k == CHOOSE x \in keys : TRUE IN f[k] + SumOver(f, keys \ {k})

\* C24: atomic mutate-then-index. While add_documents or delete_document runs
\* in one thread, no call of another thread sees the store and the
\* metadata index apart: get_statistics counts as many documents in the store
\* as in the index, and every document search_by_metadata returns has, in the
\* store, the metadata the filters matched.
C24_AtomicMutateThenIndex ==
    /\ (store_call.op = "get_statistics" /\ store_ret.statistics.total_documents > 0) =>
          SumOver(store_ret.statistics.by_file_type, DOMAIN store_ret.statistics.by_file_type)
             = store_ret.statistics.total_documents
    /\ store_call.op = "search_by_metadata" =>
          \A doc \in store_ret.docs :
             IF store_call.match_all
             THEN \A i \in 1..Len(store_call.filters) :
                     FilterMatches(doc.metadata, store_call.filters[i])
             ELSE \E i \in 1..Len(store_call.filters) :
                     FilterMatches(doc.metadata, store_call.filters[i])


\* the ids of the live records that hold the normalized value k in field
Holders(nm, field, k) ==
    { id \in DOMAIN nm : field \in DOMAIN nm[id] /\ NormalizeValue(nm[id][field]) = k }

\* the normalized values the live records hold in field
LiveValues(nm, field) ==
    { NormalizeValue(nm[id][field]) : id \in { x \in DOMAIN nm : field \in DOMAIN nm[x] } }

\* C26: value counts. get_value_counts(field) maps each normalized value held by
\* at least one live record in the field to the number of such records, and
\* get_unique_values(field) lists exactly those values, none of them a value
\* that no live record holds.
C26_ValueCounts ==
    /\ call.op = "get_value_counts" =>
          /\ { ret.list[i].key : i \in 1..Len(ret.list) } = LiveValues(node_metadata, call.id)
          /\ \A i \in 1..Len(ret.list) :
                ret.list[i].count
                   = Cardinality(Holders(node_metadata, call.id, ret.list[i].key))
    /\ call.op = "get_unique_values" =>
          { ret.list[i] : i \in 1..Len(ret.list) } = LiveValues(node_metadata, call.id)


\* the index clear() followed by index_nodes over the live records builds
Rebuilt(nm) ==
    LET ids == SeqOfSet(DOMAIN nm)
        live == [i \in 1..Len(ids) |-> Node(ids[i], nm[ids[i]])]
    IN IndexLoop([fi |-> EmptyFn, nm |-> EmptyFn, ifs |-> {}], live, NoFields)

\* the items of a listing, whatever their order
Items(l) == { l[i] : i \in 1..Len(l) }

\* C25: the index is a rebuildable projection. After any sequence of
\* index_nodes, delete_node and search calls the index answers every search,
\* range_search, get_unique_values and get_value_counts query as the index
\* built by clear() and index_nodes over the live records does.
C25_RebuildableProjection ==
    LET fresh == Rebuilt(node_metadata)
    IN /\ \A filters \in CallFilters, match_all \in BOOLEAN :
             SearchResult(field_index, node_metadata, filters, match_all)
                = SearchResult(fresh.fi, fresh.nm, filters, match_all)
       /\ \A field \in RangeFields, lo \in RangeBoundChoices, hi \in RangeBoundChoices :
             UNION Items(RangeResult(field_index, field, lo, hi))
                = UNION Items(RangeResult(fresh.fi, field, lo, hi))
       /\ \A field \in RangeFields :
             /\ Items(GetUniqueValues(field_index, field)) = Items(GetUniqueValues(fresh.fi, field))
             /\ Items(GetValueCounts(field_index, field)) = Items(GetValueCounts(fresh.fi, field))


\* C27: searches do not interfere. A search, in either match mode and with any
\* number of filters, leaves every bucket and the side table as they were, so
\* that any search made after it returns what it would have returned before.
C27_SearchesDoNotInterfere ==
    [][ call'.op = "search" =>
          /\ field_index' = field_index
          /\ node_metadata' = node_metadata
          /\ \A filters \in CallFilters, match_all \in BOOLEAN :
                SearchResult(field_index', node_metadata', filters, match_all)
                   = SearchResult(field_index, node_metadata, filters, match_all) ]_vars


\* node_id is in no bucket of the index
InNoBucket(fi, node_id) ==
    \A f \in DOMAIN fi : \A i \in 1..Len(fi[f]) : node_id \notin fi[f][i].ids

\* every value has one bucket: no two keys of a field are written to a
\* snapshot under the same name
OneBucketPerValue(fi) ==
    \A f \in DOMAIN fi : \A i, j \in 1..Len(fi[f]) :
        i # j => PyStr(fi[f][i].key) # PyStr(fi[f][j].key)

\* C28: operations on a restored index. On a MetadataIndex loaded from a
\* snapshot, delete_node(id) removes id from every bucket it was in, and
\* index_nodes adds ids to the bucket the snapshot holds for their value and
\* opens no second bucket for it, whether the values are strings, numbers,
\* booleans or sequences.
C28_RestoredIndexOperations ==
    [][ call.op = "load" =>
          /\ call'.op = "delete_node" => InNoBucket(field_index', call'.id)
          /\ (call'.op = "index_nodes" /\ OneBucketPerValue(field_index))
                => OneBucketPerValue(field_index') ]_vars


\* the ids that have a record in the store
StoredIds(be, ds, fs) ==
    IF be = "json" THEN { x \in DOMAIN fs : fs[x].kind = "doc" } ELSE DOMAIN ds

\* how add_documents has to count documents[i..]: present is the set of ids
\* that have a record before documents[i] is processed, acc the counts so far
RECURSIVE Accounting(_, _, _, _, _, _, _)
Accounting(be, present, documents, update_existing, faults, i, acc) ==
    IF i > Len(documents) THEN acc
    ELSE LET id == documents[i].doc_id
             was == id \in present
         IN IF was /\ ~update_existing
            THEN Accounting(be, present, documents, update_existing, faults, i + 1,
                            [acc EXCEPT !.skipped = @ + 1])
            ELSE IF faults[i] = "none"
            THEN Accounting(be, present \cup {id}, documents, update_existing, faults, i + 1,
                            IF was THEN [acc EXCEPT !.updated = @ + 1]
                                   ELSE [acc EXCEPT !.added = @ + 1])
            ELSE Accounting(be,
                            IF be = "json" /\ faults[i] = "dump" THEN present \ {id} ELSE present,
                            documents, update_existing, faults, i + 1,
                            [acc EXCEPT !.errors = @ + 1])

\* C29: batch accounting. For every call of add_documents the counts returned
\* add up to the number of documents, and a document is counted as added only if
\* its id had no record when it was processed and as updated only if it had
\* one, a second occurrence of an id in the batch included.
C29_BatchAccounting ==
    [][ store_call'.op = "add_documents" =>
          LET docs == store_call'.documents
              due == Accounting(backend, StoredIds(backend, docstore, files), docs,
                                store_call'.update_existing, store_call'.faults, 1,
                                [added |-> 0, updated |-> 0, skipped |-> 0, errors |-> 0])
          IN /\ store_ret'.added + store_ret'.updated + store_ret'.skipped
                   + Len(store_ret'.errors) = Len(docs)
             /\ store_ret'.added = due.added
             /\ store_ret'.updated = due.updated
             /\ store_ret'.skipped = due.skipped
             /\ Len(store_ret'.errors) = due.errors ]_vars

\* add_documents has returned from a batch with the same id twice, the first
\* occurrence counted as added and the second as updated
C29_Witness ==
    /\ store_call.op = "add_documents"
    /\ Len(store_call.documents) = 2
    /\ store_call.documents[1].doc_id = store_call.documents[2].doc_id
    /\ store_ret.added = 1 /\ store_ret.updated = 1
    /\ store_ret.skipped = 0 /\ store_ret.errors = <<>>


\* C30: aggregate stats track the index. After every index_nodes, delete_node
\* and clear, and after loading a snapshot, stats['total_nodes'] is the number
\* of ids in node_metadata and stats['indexed_fields'] is the set of fields
\* that have an entry in field_index.
C30_StatsTrackIndex ==
    call.op \in {"index_nodes", "delete_node", "clear", "load"} =>
        /\ stats.total_nodes = Cardinality(DOMAIN node_metadata)
        /\ stats.indexed_fields = DOMAIN field_index

====
